---- MODULE Spec2Model ----
(***************************************************************************)
(* A model of the AI knowledge crawler: the orchestrator's crawl_all loop  *)
(* (news_collector.py), its deduplication and ranking steps, the           *)
(* syndication-feed fetcher (crawlers.py) and the shared timeframe,        *)
(* relevance and priority helpers of BaseCrawler (crawler_base.py).        *)
(*                                                                         *)
(* Text is modelled as sequences of one-character strings, so that         *)
(* lower-casing, punctuation stripping, splitting and substring search are *)
(* computed.  Time is counted in half seconds (the length of the pause     *)
(* crawl_all makes between two crawlers).                                  *)
(***************************************************************************)
EXTENDS Integers, Sequences, FiniteSets, TLC

VARIABLES
    pc,              \* "idle", "loop", "done" (crawl_all returned), "raised"
    crawlers,        \* self.crawlers: the fetcher set, in registry order
    days_back,       \* the days_back argument of the running crawl_all
    idx,             \* position of the for loop of crawl_all in self.crawlers
    all_articles,    \* the accumulation buffer of crawl_all
    unique_articles, \* what _deduplicate returned
    sorted_articles, \* what _sort_by_priority (and crawl_all) returned
    calls,           \* history: one record per crawl() invocation, in order
    clock,           \* the wall clock, in half seconds
    started,         \* the clock when crawl_all was called
    probe_args,      \* the arguments of a helper called on its own
    probe_result,    \* what that call gave, << >> before the call
    registry,        \* the source descriptors of CrawlerConfig, by category
    built,           \* the local list `crawlers` of _initialize_crawlers
    has_logger,      \* whether self.logger of the orchestrator is assigned
    last_request_time, \* last_request_time of every fetcher instance
    network,         \* history: the network calls issued so far, in order
    request_no       \* how many operations of the request layer have run

vars == << pc, crawlers, days_back, idx, all_articles, unique_articles,
           sorted_articles, calls, clock, started, probe_args, probe_result,
           registry, built, has_logger, last_request_time, network, request_no >>

\* The state of the construction of the orchestrator
init_vars == << registry, built, has_logger >>

\* The state of the request and throttle layer
layer_vars == << last_request_time, network, request_no >>

-----------------------------------------------------------------------------
(* Bounds of the model *)

\* The longest fetcher set of a run
MaxCrawlers == 2

\* The most articles the accumulation buffer holds
MaxArticles == 3

\* The most entries of one feed, and the most articles of one crawl()
MaxEntries == 2

\* The largest days_back a helper is called with on its own
MaxDaysBack == 3

-----------------------------------------------------------------------------
(* Text: characters, str.lower, the regular expression classes \w and \s *)

UpperLetters ==
    <<"A","B","C","D","E","F","G","H","I","J","K","L","M",
      "N","O","P","Q","R","S","T","U","V","W","X","Y","Z">>

LowerLetters ==
    <<"a","b","c","d","e","f","g","h","i","j","k","l","m",
      "n","o","p","q","r","s","t","u","v","w","x","y","z">>

Digits == {"0","1","2","3","4","5","6","7","8","9"}

Range(s) == { s[i] : i \in DOMAIN s }

UpperSet == Range(UpperLetters)

\* The characters of the class \w: letters, digits and the underscore
WordChars == Range(UpperLetters) \cup Range(LowerLetters) \cup Digits \cup {"_"}

\* The characters of the class \s
SpaceChars == {" ", "\t", "\n"}

LowerChar(c) ==
    IF c \in UpperSet
    THEN LowerLetters[CHOOSE i \in DOMAIN UpperLetters : UpperLetters[i] = c]
    ELSE c

Lower(s) == [ i \in DOMAIN s |-> LowerChar(s[i]) ]

IsWordChar(c) == c \in WordChars

IsSpace(c) == c \in SpaceChars

\* re.sub(r'[^\w\s]', '', s): every character that is neither \w nor \s goes
StripPunctuation(s) == SelectSeq(s, LAMBDA c : IsWordChar(c) \/ IsSpace(c))

\* str.split(): the maximal runs of non-whitespace characters, in order
RECURSIVE SplitFrom(_, _, _)
SplitFrom(s, i, cur) ==
    IF i > Len(s)
    THEN IF cur = << >> THEN << >> ELSE << cur >>
    ELSE IF IsSpace(s[i])
         THEN IF cur = << >> THEN SplitFrom(s, i + 1, << >>)
              ELSE << cur >> \o SplitFrom(s, i + 1, << >>)
         ELSE SplitFrom(s, i + 1, Append(cur, s[i]))

Split(s) == SplitFrom(s, 1, << >>)

\* tokens[:n]
Take(s, n) == SubSeq(s, 1, IF Len(s) < n THEN Len(s) ELSE n)

\* ' '.join(tokens)
RECURSIVE Join(_)
Join(tokens) ==
    IF tokens = << >> THEN << >>
    ELSE IF Len(tokens) = 1 THEN tokens[1]
    ELSE tokens[1] \o << " " >> \o Join(Tail(tokens))

\* keyword in text
Contains(text, kw) ==
    \E i \in 0 .. (Len(text) - Len(kw)) : SubSeq(text, i + 1, i + Len(kw)) = kw

-----------------------------------------------------------------------------
(* The titles the model draws from *)

TitleX ==
    <<"G","P","T","-","5"," ","L","a","u","n","c","h"," ","D","e","t","a","i","l","s"," ","T","o","d","a","y">>
TitleY ==
    <<"g","p","t","-","5"," ","l","a","u","n","c","h"," ","d","e","t","a","i","l","s"," ","t","o","d","a","y",","," ","m","o","r","e">>
TitleX2 ==
    <<"G","P","T","-","5",":"," ","l","a","u","n","c","h"," "," ","d","e","t","a","i","l","s"," ","T","O","D","A","Y","!">>
TitleNine ==
    <<"N","e","w"," ","A","I"," ","m","o","d","e","l"," ","b","e","a","t","s"," ","a","l","l"," ","p","r","i","o","r"," ","b","e","n","c","h","m","a","r","k","s"," ","o","n"," ","r","e","a","s","o","n","i","n","g"," ","t","a","s","k","s">>
TitleNineB ==
    <<"n","e","w"," ","a","i"," ","m","o","d","e","l"," ","b","e","a","t","s"," ","a","l","l"," ","p","r","i","o","r"," ","b","e","n","c","h","m","a","r","k","s"," ","o","n"," ","c","o","d","i","n","g">>
TitleEight ==
    <<"N","e","w"," ","A","I"," ","m","o","d","e","l"," ","b","e","a","t","s"," ","a","l","l"," ","p","r","i","o","r"," ","b","e","n","c","h","m","a","r","k","s"," ","i","n"," ","r","e","a","s","o","n","i","n","g">>
TitlePasta ==
    <<"T","e","n"," ","e","a","s","y"," ","p","a","s","t","a"," ","r","e","c","i","p","e","s">>

-----------------------------------------------------------------------------
(* Time and date strings *)

\* one second of wall-clock time, in half seconds
SECOND == 2

\* timedelta(days=1), in half seconds
DAY == 172800

\* datetime.min, as a timestamp: earlier than every date a string can carry
MinTs == -1

\* The clock when the model starts: day 10, 00:00:00 UTC
T0 == 10 * DAY

(* A date string is modelled by what the two parsers of the program make of it:
   "empty"     the empty string
   "garbage"   text neither parser accepts
   "rfc"       a date dateutil accepts and datetime.fromisoformat rejects
               (the RFC 822 dates of feeds: "Mon, 05 Jan 2026 10:00:00 GMT")
   "iso_tz"    an ISO 8601 date with a UTC offset (or a trailing Z)
   "iso_naive" an ISO 8601 date without a UTC offset
   ts is the instant written in the string, a naive one read as UTC. *)
DateKinds == {"empty", "garbage", "rfc", "iso_tz", "iso_naive"}

DateStr(kind, ts) == [kind |-> kind, ts |-> ts]

EmptyDate == DateStr("empty", 0)

GarbageDate == DateStr("garbage", 0)

\* The outcome of a call: a value returned or an exception raised
Return(v) == [raised |-> FALSE, value |-> v]

Raise == [raised |-> TRUE, value |-> FALSE]

\* A datetime object: an instant, timezone-aware or naive
DateTime(ts, aware) == [ts |-> ts, aware |-> aware]

\* dateutil.parser.parse(date_str)
DateutilParse(d) ==
    CASE d.kind \in {"rfc", "iso_tz"} -> Return(DateTime(d.ts, TRUE))
      [] d.kind = "iso_naive" -> Return(DateTime(d.ts, FALSE))
      [] OTHER -> Raise

\* datetime.fromisoformat(date_str.replace('Z', '+00:00'))
FromIsoformat(d) ==
    CASE d.kind = "iso_tz" -> Return(DateTime(d.ts, TRUE))
      [] d.kind = "iso_naive" -> Return(DateTime(d.ts, FALSE))
      [] OTHER -> Raise

\* if article_date.tzinfo is None: article_date.replace(tzinfo=timezone.utc)
AssumeUtc(dt) == DateTime(dt.ts, TRUE)

\* The try block with > for >=
TimeframeTryStrict(date_str, days, now) ==
    IF date_str.kind = "empty" THEN Return(TRUE)
    ELSE LET parsed == DateutilParse(date_str)
         IN  IF parsed.raised THEN Raise
             ELSE Return(AssumeUtc(parsed.value).ts > now - days * DAY)

\* The try block of is_within_timeframe
TimeframeTry(date_str, days, now) ==
    IF date_str.kind = "empty" THEN Return(TRUE)
    ELSE LET parsed == DateutilParse(date_str)
         IN  IF parsed.raised THEN Raise
             ELSE LET article_date == AssumeUtc(parsed.value)
                      cutoff_date == now - days * DAY
                  IN  Return(article_date.ts >= cutoff_date)

\* is_within_timeframe with an except clause that answers False
is_within_timeframe_closed(date_str, days, now) ==
    LET r == TimeframeTry(date_str, days, now)
    IN  IF r.raised THEN Return(FALSE) ELSE r

\* BaseCrawler.is_within_timeframe: the except clause answers True
is_within_timeframe(date_str, days, now) ==
    LET r == TimeframeTry(date_str, days, now)
    IN  IF r.raised THEN Return(TRUE) ELSE r

\* The days_back default of is_within_timeframe
DefaultDaysBack == 3

\* The try block testing the 24 hours before now instead of the calendar day
YesterdayTryLastDay(date_str, now) ==
    IF date_str.kind = "empty" THEN Return(FALSE)
    ELSE LET parsed == DateutilParse(date_str)
         IN  IF parsed.raised THEN Raise
             ELSE Return(now - DAY <= AssumeUtc(parsed.value).ts
                         /\ AssumeUtc(parsed.value).ts <= now)

\* The try block of is_yesterday_priority
YesterdayTry(date_str, now) ==
    IF date_str.kind = "empty" THEN Return(FALSE)
    ELSE LET parsed == DateutilParse(date_str)
         IN  IF parsed.raised THEN Raise
             ELSE LET article_date == AssumeUtc(parsed.value)
                      yesterday == now - DAY
                      yesterday_start == (yesterday \div DAY) * DAY
                      yesterday_end == yesterday_start + DAY - 1
                  IN  Return(yesterday_start <= article_date.ts
                             /\ article_date.ts <= yesterday_end)

\* BaseCrawler.is_yesterday_priority: the except clause answers False
is_yesterday_priority(date_str, now) ==
    LET r == YesterdayTry(date_str, now)
    IN  IF r.raised THEN Return(FALSE) ELSE r

-----------------------------------------------------------------------------
(* Relevance and priority *)

ai_keywords ==
    << <<"a","r","t","i","f","i","c","i","a","l"," ","i","n","t","e","l","l","i","g","e","n","c","e">>,
       <<"m","a","c","h","i","n","e"," ","l","e","a","r","n","i","n","g">>,
       <<"d","e","e","p"," ","l","e","a","r","n","i","n","g">>,
       <<"n","e","u","r","a","l"," ","n","e","t","w","o","r","k">>,
       <<"l","l","m">>,
       <<"l","a","r","g","e"," ","l","a","n","g","u","a","g","e"," ","m","o","d","e","l">>,
       <<"g","p","t">>,
       <<"c","l","a","u","d","e">>,
       <<"o","p","e","n","a","i">>,
       <<"a","n","t","h","r","o","p","i","c">>,
       <<"g","o","o","g","l","e"," ","a","i">>,
       <<"d","e","e","p","m","i","n","d">>,
       <<"c","h","a","t","b","o","t">>,
       <<"g","e","n","e","r","a","t","i","v","e"," ","a","i">>,
       <<"f","o","u","n","d","a","t","i","o","n"," ","m","o","d","e","l">>,
       <<"t","r","a","n","s","f","o","r","m","e","r">>,
       <<"a","i"," ","s","a","f","e","t","y">>,
       <<"a","i"," ","e","t","h","i","c","s">>,
       <<"a","i"," ","r","e","g","u","l","a","t","i","o","n">>,
       <<"c","o","m","p","u","t","e","r"," ","v","i","s","i","o","n">>,
       <<"n","l","p">>,
       <<"n","a","t","u","r","a","l"," ","l","a","n","g","u","a","g","e"," ","p","r","o","c","e","s","s","i","n","g">>,
       <<"a","i"," ","c","h","i","p">>,
       <<"n","v","i","d","i","a">>,
       <<"a","i"," ","s","t","a","r","t","u","p">>,
       <<"a","i"," ","f","u","n","d","i","n","g">>,
       <<"a","i"," ","r","e","s","e","a","r","c","h">>,
       <<"r","o","b","o","t","i","c","s"," ","a","i">>,
       <<"a","u","t","o","n","o","m","o","u","s">>,
       <<"a","i"," ","a","g","e","n","t">>,
       <<"m","u","l","t","i","m","o","d","a","l"," ","a","i">>,
       <<"a","i"," ","m","o","d","e","l">>,
       <<"a","i"," ","t","r","a","i","n","i","n","g">>,
       <<"b","e","r","t">>,
       <<"p","y","t","o","r","c","h">>,
       <<"t","e","n","s","o","r","f","l","o","w">>,
       <<"h","u","g","g","i","n","g","f","a","c","e">>,
       <<"s","t","a","b","l","e"," ","d","i","f","f","u","s","i","o","n">> >>
priority_keywords ==
    << <<"b","r","e","a","k","t","h","r","o","u","g","h">>,
       <<"n","e","w"," ","m","o","d","e","l">>,
       <<"r","e","l","e","a","s","e">>,
       <<"a","n","n","o","u","n","c","e","m","e","n","t">>,
       <<"f","u","n","d","i","n","g">>,
       <<"a","c","q","u","i","s","i","t","i","o","n">>,
       <<"p","a","r","t","n","e","r","s","h","i","p">>,
       <<"o","p","e","n"," ","s","o","u","r","c","e">>,
       <<"r","e","s","e","a","r","c","h"," ","p","a","p","e","r">>,
       <<"s","o","t","a">>,
       <<"s","t","a","t","e","-","o","f","-","t","h","e","-","a","r","t">>,
       <<"b","e","n","c","h","m","a","r","k">>,
       <<"r","e","g","u","l","a","t","i","o","n">>,
       <<"p","o","l","i","c","y">>,
       <<"s","a","f","e","t","y">>,
       <<"e","t","h","i","c","s">> >>

\* An optional value: << >> is None (or a missing attribute), << v >> is v
None == << >>

Some(v) == << v >>

\* f"{title} {summary}".lower()
TextOf(title, summary) == Lower(title \o << " " >> \o summary)

AnyKeyword(keywords, text) ==
    \E i \in DOMAIN keywords : Contains(text, keywords[i])

ai_indicator_tags ==
    {"ai", "ml", "artificial-intelligence", "machine-learning", "neural",
     "deep-learning"}

\* BaseCrawler.is_ai_relevant
is_ai_relevant(title, summary, tags) ==
    IF \E i \in DOMAIN tags : tags[i] \in ai_indicator_tags THEN TRUE
    ELSE AnyKeyword(ai_keywords, TextOf(title, summary))

\* get_priority whose default is "low"
get_priority_low(title, date_str, summary, now) ==
    IF is_yesterday_priority(date_str, now).value THEN "high"
    ELSE IF AnyKeyword(priority_keywords, TextOf(title, summary)) THEN "high"
    ELSE "low"

\* BaseCrawler.get_priority
get_priority(title, date_str, summary, now) ==
    IF is_yesterday_priority(date_str, now).value THEN "high"
    ELSE IF AnyKeyword(priority_keywords, TextOf(title, summary)) THEN "high"
    ELSE "medium"


-----------------------------------------------------------------------------
(* Articles and deduplication *)

\* The Article dataclass
Article(title, authors, date, url, tags, source, summary, priority, crawled_at) ==
    [title |-> title, authors |-> authors, date |-> date, url |-> url,
     tags |-> tags, source |-> source, summary |-> summary,
     priority |-> priority, crawled_at |-> crawled_at]

\* The number of leading words of a title that make its key
KeyWords == 8

\* The title key cut after four words instead of eight
TitleKeyFourWords(title) ==
    Join(Take(Split(StripPunctuation(Lower(title))), 4))

\* The title key of _deduplicate: lower-case, strip punctuation, split,
\* keep the first 8 words, join with single spaces
TitleKey(title) ==
    Join(Take(Split(StripPunctuation(Lower(title))), KeyWords))

TitlePool ==
    {TitleX, TitleY, TitleX2, TitleNine, TitleNineB, TitleEight, TitlePasta}

\* The keys of the titles of the model, computed once
TitleKeyTable == { << t, TitleKey(t) >> : t \in TitlePool }

\* TitleKey(title), looked up in the table when the title is in it
title_key_of(title) ==
    IF title \in TitlePool
    THEN (CHOOSE p \in TitleKeyTable : p[1] = title)[2]
    ELSE TitleKey(title)

\* _deduplicate remembering only the key of the article before
RECURSIVE DedupLoopLastKeyOnly(_, _, _, _)
DedupLoopLastKeyOnly(articles, i, seen_titles, unique) ==
    IF i > Len(articles) THEN unique
    ELSE LET title_key == title_key_of(articles[i].title)
         IN  IF title_key \notin seen_titles
             THEN DedupLoopLastKeyOnly(articles, i + 1, {title_key},
                                       Append(unique, articles[i]))
             ELSE DedupLoopLastKeyOnly(articles, i + 1, {title_key}, unique)

\* The for loop of _deduplicate from position i on
RECURSIVE DedupLoop(_, _, _, _)
DedupLoop(articles, i, seen_titles, unique) ==
    IF i > Len(articles) THEN unique
    ELSE LET title_key == title_key_of(articles[i].title)
         IN  IF title_key \notin seen_titles
             THEN DedupLoop(articles, i + 1, seen_titles \cup {title_key},
                            Append(unique, articles[i]))
             ELSE DedupLoop(articles, i + 1, seen_titles, unique)

\* _deduplicate keeping the last article of every key instead of the first
DeduplicateLastWins(articles) ==
    LET n == Len(articles)
        backwards == DedupLoop([ i \in 1 .. n |-> articles[n + 1 - i] ], 1, {}, << >>)
        m == Len(backwards)
    IN  [ i \in 1 .. m |-> backwards[m + 1 - i] ]

\* AIKnowledgeCrawler._deduplicate
Deduplicate(articles) == DedupLoop(articles, 1, {}, << >>)

-----------------------------------------------------------------------------
(* Ranking *)

\* priority_weight.get(article.priority, 1)
Weight(priority) ==
    CASE priority = "high" -> 3
      [] priority = "medium" -> 2
      [] priority = "low" -> 1
      [] OTHER -> 1

\* datetime.min.replace(tzinfo=timezone.utc)
DateTimeMin == DateTime(MinTs, TRUE)

\* sort_key of _sort_by_priority: a failed parse is caught and gives
\* datetime.min; a parsed date keeps the timezone it was written with, or none
sort_key(article) ==
    LET w == Weight(article.priority)
    IN  IF article.date.kind = "empty" THEN [w |-> w, date |-> DateTimeMin]
        ELSE LET parsed == FromIsoformat(article.date)
             IN  IF parsed.raised THEN [w |-> w, date |-> DateTimeMin]
                 ELSE [w |-> w, date |-> parsed.value]

\* k1 < k2 on the key tuples: the first differing component decides; == of a
\* naive and an aware datetime is False, < of the two raises TypeError
KeyLess(k1, k2) ==
    IF k1.w # k2.w THEN Return(k1.w < k2.w)
    ELSE IF k1.date = k2.date THEN Return(FALSE)
    ELSE IF k1.date.aware # k2.date.aware THEN Raise
    ELSE Return(k1.date.ts < k2.date.ts)

Reverse(s) == [ i \in DOMAIN s |-> s[Len(s) + 1 - i] ]

\* Insert x into the ascending run `run`, after every element that is not
\* greater than it; the elements run[j+1..] are known to be greater
RECURSIVE InsertInto(_, _, _)
InsertInto(run, x, j) ==
    IF j = 0 THEN Return(<< x >> \o run)
    ELSE LET less == KeyLess(sort_key(x), sort_key(run[j]))
         IN  IF less.raised THEN Raise
             ELSE IF less.value THEN InsertInto(run, x, j - 1)
             ELSE Return(SubSeq(run, 1, j) \o << x >> \o SubSeq(run, j + 1, Len(run)))

\* A stable ascending insertion sort of items[i..] into run
RECURSIVE SortInto(_, _, _)
SortInto(items, i, run) ==
    IF i > Len(items) THEN Return(run)
    ELSE LET r == InsertInto(run, items[i], Len(run))
         IN  IF r.raised THEN Raise ELSE SortInto(items, i + 1, r.value)

\* sorted without reverse=True
SortedAscending(articles) == SortInto(articles, 1, << >>)

\* An ascending sort reversed afterwards: articles of equal key change places
SortedThenReversed(articles) ==
    LET r == SortInto(articles, 1, << >>)
    IN  IF r.raised THEN Raise ELSE Return(Reverse(r.value))

\* sorted(articles, key=sort_key, reverse=True): the list is reversed, sorted
\* ascending and stably, and reversed again; a comparison that raises ends it
Sorted(articles) ==
    LET r == SortInto(Reverse(articles), 1, << >>)
    IN  IF r.raised THEN Raise ELSE Return(Reverse(r.value))

\* AIKnowledgeCrawler._sort_by_priority
SortByPriority(articles) == Sorted(articles)


-----------------------------------------------------------------------------
(* The syndication-feed fetcher *)

\* The longest summary an RSS article keeps: summary[:500]
SummaryLimit == 500

\* One entry of a parsed feed; a missing attribute is None
FeedEntry(title, published, summary, author, authors, link) ==
    [title |-> title, published |-> published, summary |-> summary,
     author |-> author, authors |-> authors, link |-> link]

\* getattr(entry, name, default)
GetAttr(opt, default) == IF opt = None THEN default ELSE opt[1]

\* [author.name for author in entry.authors if hasattr(author, 'name')]
AuthorNames(authors) ==
    LET named == SelectSeq(authors, LAMBDA a : a # None)
    IN  [ i \in DOMAIN named |-> named[i][1] ]

\* The authors of an entry: its author, else the names of its authors
EntryAuthors(entry) ==
    IF entry.author # None THEN << entry.author[1] >>
    ELSE IF entry.authors # None THEN AuthorNames(entry.authors[1])
    ELSE << >>

\* The body of the for loop of RSSCrawler.crawl for one entry:
\*   "skip"    the entry is passed over (continue)
\*   "raise"   an attribute the code reads unguarded (title, link) is missing
\*   "article" the entry becomes an Article
RssEntry(self, entry, now) ==
    LET published == GetAttr(entry.published, EmptyDate)
        summary == GetAttr(entry.summary, << >>)
    IN  IF ~is_within_timeframe(published, DefaultDaysBack, now).value
        THEN [kind |-> "skip"]
        ELSE IF entry.title = None THEN [kind |-> "raise"]
        ELSE IF ~is_ai_relevant(entry.title[1], summary, self.tags)
        THEN [kind |-> "skip"]
        ELSE IF entry.link = None THEN [kind |-> "raise"]
        ELSE [kind |-> "article",
              article |->
                  Article(entry.title[1],
                          EntryAuthors(entry),
                          published,
                          entry.link[1],
                          self.tags,
                          self.name,
                          IF summary = << >> THEN None
                          ELSE Some(Take(summary, SummaryLimit)),
                          get_priority(entry.title[1], published, summary, now),
                          now)]

\* The for loop of RSSCrawler.crawl from entry i on: an exception leaves the
\* loop for the except clause, and the articles built so far are returned
RECURSIVE RssLoop(_, _, _, _, _)
RssLoop(self, entries, i, now, articles) ==
    IF i > Len(entries) THEN articles
    ELSE LET r == RssEntry(self, entries[i], now)
         IN  CASE r.kind = "skip" -> RssLoop(self, entries, i + 1, now, articles)
               [] r.kind = "raise" -> articles
               [] OTHER -> RssLoop(self, entries, i + 1, now,
                                   Append(articles, r.article))

\* RSSCrawler.crawl: a feed that cannot be fetched or parsed gives no articles
RssCrawl(self, feed, now) ==
    IF feed.raises THEN << >>
    ELSE RssLoop(self, feed.entries, 1, now, << >>)


-----------------------------------------------------------------------------
(* The fetcher set and what the sources can answer *)

\* A syndication-feed fetcher of the registry (crawler_config.py)
RssOpenAI ==
    [kind |-> "rss", name |-> "OpenAI Blog",
     tags |-> << "openai", "corporate", "research", "gpt", "llm" >>,
     throttle_delay |-> 3]

\* Any other fetcher: its crawl() returns Articles or raises
OtherCrawler ==
    [kind |-> "other", name |-> "Other", tags |-> << >>, throttle_delay |-> 2]

CrawlerPool == {RssOpenAI, OtherCrawler}

\* time.sleep(0.5) between two crawlers, in half seconds
PauseTicks == 1

SeqsUpTo(S, n) == UNION { [1 .. k -> S] : k \in 0 .. n }

SummaryFunding == << "N","e","w"," ","f","u","n","d","i","n","g" >>

\* The entries a feed may hold
EntryX ==
    FeedEntry(Some(TitleX), Some(DateStr("rfc", T0 - DAY + 3600 * SECOND)),
              None, Some("Sam"), None, Some("https://example.org/x"))

EntryY ==
    FeedEntry(Some(TitleY), Some(DateStr("iso_tz", T0 - 2 * DAY)),
              Some(SummaryFunding), None, Some(<< Some("Ann"), None >>),
              Some("https://example.org/y"))

EntryX2 ==
    FeedEntry(Some(TitleX2), Some(DateStr("rfc", T0 - 3 * DAY)),
              None, None, None, Some("https://example.org/x2"))

EntryNine ==
    FeedEntry(Some(TitleNine), Some(DateStr("iso_naive", T0 - 2 * DAY)),
              None, None, None, Some("https://example.org/nine"))

EntryNineB ==
    FeedEntry(Some(TitleNineB), Some(GarbageDate),
              None, None, None, Some("https://example.org/nineb"))

EntryOld ==
    FeedEntry(Some(TitleEight), Some(DateStr("rfc", T0 - 3 * DAY - SECOND)),
              None, None, None, Some("https://example.org/old"))

EntryPasta ==
    FeedEntry(Some(TitlePasta), Some(DateStr("iso_tz", T0 - DAY)),
              None, None, None, Some("https://example.org/pasta"))

EntryNoTitle ==
    FeedEntry(None, None, None, None, None, Some("https://example.org/none"))

EntryPool ==
    {EntryX, EntryY, EntryX2, EntryNine, EntryNineB, EntryOld, EntryPasta,
     EntryNoTitle}

\* What feedparser.parse may give: an exception, or a feed of entries
Feeds ==
    {[raises |-> TRUE, entries |-> << >>]}
    \cup { [raises |-> FALSE, entries |-> es] : es \in SeqsUpTo(EntryPool, MaxEntries) }

\* The Articles the crawl() of another fetcher may return
OtherArticle(title, date, priority) ==
    Article(title, << >>, date, "https://example.org/other", << "other" >>,
            "Other", None, priority, T0)

OtherArticles ==
    {OtherArticle(TitleX, DateStr("iso_naive", T0 - DAY), "medium"),
     OtherArticle(TitleY, EmptyDate, "medium"),
     OtherArticle(TitleNine, DateStr("iso_tz", T0 - DAY), "high"),
     OtherArticle(TitleNineB, DateStr("iso_tz", T0), "low"),
     OtherArticle(TitleEight, DateStr("iso_tz", T0 - 2 * DAY), "high"),
     OtherArticle(TitleX2, GarbageDate, "medium")}

OtherReturns == SeqsUpTo(OtherArticles, MaxEntries)

\* The clock advances by the pause after each crawler that returned
Clocks == { T0 + k * PauseTicks : k \in 0 .. MaxCrawlers }

RssCrawlers == { c \in CrawlerPool : c.kind = "rss" }

\* What crawl() of a feed fetcher returns, for every fetcher, clock and feed
RssOutcomes ==
    { [crawler |-> c, now |-> t, articles |-> RssCrawl(c, feed, t)] :
          c \in RssCrawlers, t \in Clocks, feed \in Feeds }

\* The days_back arguments crawl_all is called with
DaysBackChoices == {1, DefaultDaysBack}

-----------------------------------------------------------------------------
(* The orchestrator *)

TypeOK ==
    /\ pc \in {"idle", "loop", "done", "raised"}
    /\ idx \in 0 .. MaxCrawlers + 1
    /\ Len(all_articles) <= MaxArticles
    /\ clock \in Clocks

\* The state after construction, with fetcher set cs and nothing called yet
Constructed(cs) ==
    /\ pc = "idle"
    /\ crawlers = cs
    /\ days_back = DefaultDaysBack
    /\ idx = 0
    /\ all_articles = << >>
    /\ unique_articles = << >>
    /\ sorted_articles = << >>
    /\ calls = << >>
    /\ clock = T0
    /\ started = T0
    /\ probe_result = << >>
    /\ registry = << >>
    /\ built = << >>
    /\ has_logger = TRUE
    /\ last_request_time = [ i \in DOMAIN cs |-> 0 ]
    /\ network = << >>
    /\ request_no = 0

Init ==
    /\ \E cs \in SeqsUpTo(CrawlerPool, MaxCrawlers) : Constructed(cs)
    /\ probe_args = << >>

\* Lines 121-127 of crawl_all: deduplicate, rank, return; an exception of the
\* ranking step leaves crawl_all
Finish(articles) ==
    LET unique == Deduplicate(articles)
        ranked == SortByPriority(unique)
    IN  /\ unique_articles' = unique
        /\ IF ranked.raised
           THEN pc' = "raised" /\ sorted_articles' = << >>
           ELSE pc' = "done" /\ sorted_articles' = ranked.value

\* The for loop moves on to the next crawler, or ends
Advance(articles) ==
    IF idx >= Len(crawlers)
    THEN idx' = idx /\ Finish(articles)
    ELSE /\ idx' = idx + 1
         /\ pc' = "loop"
         /\ UNCHANGED << unique_articles, sorted_articles >>

\* crawl_all(days_back) is called
CallCrawlAll ==
    /\ pc = "idle"
    /\ \E d \in DaysBackChoices : days_back' = d
    /\ all_articles' = << >>
    /\ started' = clock
    /\ IF crawlers = << >>
       THEN idx' = 0 /\ Finish(<< >>)
       ELSE idx' = 1 /\ pc' = "loop" /\ UNCHANGED << unique_articles, sorted_articles >>
    /\ UNCHANGED << crawlers, calls, clock, probe_args, probe_result >>
    /\ UNCHANGED << init_vars, layer_vars >>

\* One pass of the for loop whose crawl() returned `articles`: lines 107-115
Returned(articles) ==
    /\ all_articles' = all_articles \o articles
    /\ calls' = Append(calls, [crawler |-> idx, raised |-> FALSE,
                               before |-> Len(all_articles),
                               after |-> Len(all_articles')])
    /\ clock' = clock + PauseTicks
    /\ Advance(all_articles')
    /\ UNCHANGED << crawlers, days_back, started, probe_args, probe_result >>
    /\ UNCHANGED << init_vars, layer_vars >>

\* A crawl() that raised ends crawl_all: the loop without its try
FailedAborts ==
    /\ all_articles' = all_articles
    /\ calls' = Append(calls, [crawler |-> idx, raised |-> TRUE,
                               before |-> Len(all_articles),
                               after |-> Len(all_articles')])
    /\ pc' = "raised"
    /\ UNCHANGED << crawlers, days_back, started, clock, probe_args, probe_result,
                    idx, unique_articles, sorted_articles >>
    /\ UNCHANGED << init_vars, layer_vars >>

\* One pass of the for loop whose crawl() raised: lines 117-119
Failed ==
    /\ all_articles' = all_articles
    /\ calls' = Append(calls, [crawler |-> idx, raised |-> TRUE,
                               before |-> Len(all_articles),
                               after |-> Len(all_articles')])
    /\ Advance(all_articles')
    /\ UNCHANGED << crawlers, days_back, started, clock, probe_args, probe_result >>
    /\ UNCHANGED << init_vars, layer_vars >>

\* The current crawler is a feed fetcher: its crawl() never raises
CrawlRss ==
    /\ pc = "loop"
    /\ crawlers[idx].kind = "rss"
    /\ \E o \in RssOutcomes :
           /\ o.crawler = crawlers[idx]
           /\ o.now = clock
           /\ Len(all_articles) + Len(o.articles) <= MaxArticles
           /\ Returned(o.articles)

\* The current crawler is another fetcher and its crawl() returns
CrawlOtherReturns ==
    /\ pc = "loop"
    /\ crawlers[idx].kind = "other"
    /\ \E articles \in OtherReturns :
           /\ Len(all_articles) + Len(articles) <= MaxArticles
           /\ Returned(articles)

\* The current crawler is another fetcher and its crawl() raises
CrawlOtherRaises ==
    /\ pc = "loop"
    /\ crawlers[idx].kind = "other"
    /\ Failed

Next ==
    \/ CallCrawlAll
    \/ CrawlRss
    \/ CrawlOtherReturns
    \/ CrawlOtherRaises

Spec == Init /\ [][Next]_vars

-----------------------------------------------------------------------------
(* The scenario of three fetchers: the first source yields five valid, recent,
   relevant entries, the second fetcher raises, the third source yields two
   entries dated outside the look-back window *)

EntryEight ==
    FeedEntry(Some(TitleEight), Some(DateStr("iso_tz", T0 - DAY)),
              None, None, None, Some("https://example.org/eight"))

EntryOlder ==
    FeedEntry(Some(TitleY), Some(DateStr("iso_tz", T0 - 5 * DAY)),
              None, None, None, Some("https://example.org/older"))

ScenarioCrawlers == << RssOpenAI, OtherCrawler, RssOpenAI >>

ScenarioValid == {EntryX, EntryY, EntryX2, EntryNine, EntryEight}

ScenarioOld == {EntryOld, EntryOlder}

FeedOf(entries) == [raises |-> FALSE, entries |-> entries]

InitScenario ==
    /\ Constructed(ScenarioCrawlers)
    /\ probe_args = << >>

ScenarioFirst ==
    /\ pc = "loop"
    /\ idx = 1
    /\ \E es \in [1 .. 5 -> ScenarioValid] :
           Returned(RssCrawl(crawlers[idx], FeedOf(es), clock))

ScenarioSecond ==
    /\ pc = "loop"
    /\ idx = 2
    /\ Failed

ScenarioThird ==
    /\ pc = "loop"
    /\ idx = 3
    /\ \E es \in [1 .. 2 -> ScenarioOld] :
           Returned(RssCrawl(crawlers[idx], FeedOf(es), clock))

NextScenario ==
    \/ CallCrawlAll
    \/ ScenarioFirst
    \/ ScenarioSecond
    \/ ScenarioThird

SpecScenario == InitScenario /\ [][NextScenario]_vars

-----------------------------------------------------------------------------
(* is_within_timeframe called on its own *)

ProbeNows == {T0, T0 + 7 * 3600 * SECOND + 1}

\* Instants at, just before and just after every cutoff
ProbeInstants ==
    { now - d * DAY + off :
          now \in ProbeNows, d \in 0 .. MaxDaysBack, off \in {0 - SECOND, 0 - 1, 0, 1} }

ProbeDates ==
    {EmptyDate, GarbageDate}
    \cup { DateStr(k, t) : k \in {"rfc", "iso_tz", "iso_naive"}, t \in ProbeInstants }

InitTimeframe ==
    /\ Constructed(<< >>)
    /\ \E d \in ProbeDates, n \in 0 .. MaxDaysBack, now \in ProbeNows :
           probe_args = << [date |-> d, days |-> n, now |-> now] >>

CallIsWithinTimeframe ==
    /\ probe_args # << >>
    /\ probe_result = << >>
    /\ probe_result' =
           << is_within_timeframe(probe_args[1].date, probe_args[1].days,
                                  probe_args[1].now) >>
    /\ UNCHANGED << pc, crawlers, days_back, idx, all_articles, unique_articles,
                    sorted_articles, calls, clock, started, probe_args >>
    /\ UNCHANGED << init_vars, layer_vars >>

NextTimeframe == CallIsWithinTimeframe

SpecTimeframe == InitTimeframe /\ [][NextTimeframe]_vars

-----------------------------------------------------------------------------
(* The request and throttle layer of BaseCrawler *)

\* The most operations of the request layer in one run of the layer on its own
MaxRequests == 2

\* One try more than max_tries
max_tries_plus_one == 3 + 1

\* max_tries of the backoff decorator of make_request
max_tries == 3

\* max_time of the backoff decorator of make_request, in half seconds
max_time == 30 * SECOND

\* The timeout make_request gives session.get, in half seconds
RequestTimeout == 30 * SECOND

\* What the network answers one session.get: a response with a status code,
\* or nothing before the timeout
Response(status) == [kind |-> "response", status |-> status]

NoResponse == [kind |-> "timeout", status |-> 0]

AnswerPool == {Response(200), Response(404), Response(503), NoResponse}

\* How long session.get takes to give the answer, in half seconds
Duration(answer) == IF answer.kind = "timeout" THEN RequestTimeout ELSE 1

\* session.get(url, **kwargs) followed by response.raise_for_status(): the
\* exception raised, or "none".  requests.Timeout and requests.HTTPError are
\* both subclasses of requests.RequestException
ExceptionOf(answer) ==
    IF answer.kind = "timeout" THEN "Timeout"
    ELSE IF answer.status >= 400 /\ answer.status < 600 THEN "HTTPError"
    ELSE "none"

\* The User-Agent header of a fetcher's session
UserAgent == "AI-Knowledge-Crawler/1.0 (Research Purpose; +https://github.com/ai-knowledge-crawler)"

\* One network call through self.session.get of make_request: it carries the
\* session's headers and the default timeout
SessionCall(n, began, at, answer) ==
    [try |-> n, began |-> began, at |-> at, answer |-> answer,
     client |-> "session", timeout |-> Some(RequestTimeout), user_agent |-> UserAgent]

\* One network call a client library makes on its own (feedparser.parse,
\* arxiv.Search.results): the program hands it neither its session nor a
\* timeout
LibraryCall(library, began, at, answer) ==
    [try |-> 1, began |-> began, at |-> at, answer |-> answer,
     client |-> library, timeout |-> None, user_agent |-> library]

\* isinstance(e, requests.RequestException): what the decorator retries on
IsRequestException(e) == e \in {"Timeout", "HTTPError", "ConnectionError"}

\* throttle() that never sleeps
ThrottleNoSleep(last, delay, now) ==
    [now |-> now, last |-> now]

\* BaseCrawler.throttle, called at `now` by an instance whose last_request_time
\* is `last`: the clock after the sleep and the new last_request_time
Throttle(last, delay, now) ==
    LET time_since_last == now - last
        sleep_time == IF time_since_last < delay THEN delay - time_since_last ELSE 0
    IN  [now |-> now + sleep_time, last |-> now + sleep_time]

\* backoff.expo: 1, 2, 4, ... seconds before the second, third, ... try
Expo(n) == (2 ^ (n - 1)) * SECOND

\* backoff's _next_wait with full jitter: a random share of the next value of
\* expo (jitter 0 is none of it, 1 all of it), cut to what max_time leaves
NextWait(n, jitter, elapsed) ==
    LET seconds == jitter * Expo(n)
    IN  IF seconds < max_time - elapsed THEN seconds ELSE max_time - elapsed

\* The loop of backoff.on_exception around make_request, from try tries + 1 on.
\* script[n] is what the network answers the n-th try and the jitter drawn
\* after it; start is when the first try began; log is the calls issued so far.
\* elapsed is taken when a try begins, before the function is called
RECURSIVE RetryLoop(_, _, _, _, _, _, _)
RetryLoop(self, script, tries, start, now, last, log) ==
    LET n == tries + 1
        elapsed == now - start
        th == Throttle(last, self.throttle_delay, now)
        answer == script[n].answer
        e == ExceptionOf(answer)
        done == th.now + Duration(answer)
        log2 == Append(log, SessionCall(n, now, th.now, answer))
    IN  IF e = "none"
        THEN [raised |-> FALSE, response |-> answer, calls |-> log2,
              now |-> done, last |-> th.last]
        ELSE IF ~IsRequestException(e) \/ n = max_tries \/ elapsed >= max_time
        THEN [raised |-> TRUE, response |-> answer, calls |-> log2,
              now |-> done, last |-> th.last]
        ELSE RetryLoop(self, script, n, start,
                       done + NextWait(n, script[n].jitter, elapsed),
                       th.last, log2)

\* BaseCrawler.make_request called at `now`: whether it raised, the response,
\* the network calls it issued, the clock when it ended and the instance's
\* last_request_time
make_request(self, script, now, last) ==
    RetryLoop(self, script, 0, now, now, last, << >>)

\* What the network answers the tries of one request, and the jitter drawn
\* after each
Scripts == [1 .. max_tries -> [answer : AnswerPool, jitter : {0, 1}]]

\* The calls of one operation, as the history keeps them
Logged(i, no, cs) ==
    [ k \in DOMAIN cs |->
          [instance |-> i, request |-> no, try |-> cs[k].try,
           began |-> cs[k].began, at |-> cs[k].at, answer |-> cs[k].answer,
           client |-> cs[k].client, timeout |-> cs[k].timeout,
           user_agent |-> cs[k].user_agent] ]

\* The fetchers of the registry that are not syndication-feed fetchers, and
\* the page-scraping fetcher; throttle_delay is in half seconds
RssMila ==
    [kind |-> "rss", name |-> "MILA News",
     tags |-> << "mila", "research", "institute", "deep-learning", "quebec" >>,
     throttle_delay |-> 3]

Arxiv ==
    [kind |-> "arxiv", name |-> "arXiv",
     categories |-> << "cs.AI", "cs.LG", "cs.CL", "cs.CV", "cs.NE", "cs.RO" >>,
     throttle_delay |-> 2]

HuggingFace ==
    [kind |-> "huggingface", name |-> "Hugging Face Models", throttle_delay |-> 4]

GitHubTrending ==
    [kind |-> "github", name |-> "GitHub Trending", throttle_delay |-> 4]

PapersWithCode ==
    [kind |-> "papers", name |-> "Papers with Code", throttle_delay |-> 4]

WebScraper ==
    [kind |-> "web", name |-> "Lab Notes",
     tags |-> << "lab", "research" >>, throttle_delay |-> 4]

\* The kinds of fetcher whose crawl() goes through make_request
MakeRequestKinds == {"web", "github", "huggingface", "papers"}

-----------------------------------------------------------------------------
(* The request layer on its own: two fetcher instances issue requests, one
   after the other, in any order *)

RequestInstances ==
    {<< RssOpenAI, GitHubTrending >>, << HuggingFace, Arxiv >>}

InitRequests ==
    /\ \E cs \in RequestInstances : Constructed(cs)
    /\ probe_args = << >>

\* What an operation of the layer leaves alone
LayerFrame ==
    UNCHANGED << pc, crawlers, days_back, idx, all_articles, unique_articles,
                 sorted_articles, calls, started, probe_args, init_vars >>

\* Instance i calls make_request, and the network answers by some script
CallMakeRequest ==
    /\ request_no < MaxRequests
    /\ \E i \in DOMAIN crawlers, script \in Scripts :
           /\ crawlers[i].kind \in MakeRequestKinds
           /\ LET r == make_request(crawlers[i], script, clock, last_request_time[i])
              IN  /\ clock' = r.now
                  /\ last_request_time' = [last_request_time EXCEPT ![i] = r.last]
                  /\ network' = network \o Logged(i, request_no + 1, r.calls)
                  /\ probe_result' = << [raised |-> r.raised, response |-> r.response] >>
    /\ request_no' = request_no + 1
    /\ LayerFrame

\* Instance i, a fetcher that calls throttle() itself and then its client
\* library (RSSCrawler.crawl, ArxivCrawler.crawl): one network call, no retry
CallThrottled ==
    /\ request_no < MaxRequests
    /\ \E i \in DOMAIN crawlers, answer \in AnswerPool :
           /\ crawlers[i].kind \notin MakeRequestKinds
           /\ LET th == Throttle(last_request_time[i], crawlers[i].throttle_delay, clock)
              IN  /\ clock' = th.now + Duration(answer)
                  /\ last_request_time' = [last_request_time EXCEPT ![i] = th.last]
                  /\ network' = network \o
                         Logged(i, request_no + 1,
                                << LibraryCall(IF crawlers[i].kind = "rss"
                                               THEN "feedparser" ELSE "arxiv",
                                               clock, th.now, answer) >>)
                  /\ probe_result' = << [raised |-> FALSE, response |-> answer] >>
    /\ request_no' = request_no + 1
    /\ LayerFrame

NextRequests ==
    \/ CallMakeRequest
    \/ CallThrottled

SpecRequests == InitRequests /\ [][NextRequests]_vars

-----------------------------------------------------------------------------
(* The other fetchers: page scraping, arXiv, GitHub trending, the Hugging Face
   model hub and Papers with Code.  Each crawl operator gives the articles
   crawl() returns, the network calls it issued, the clock when it ended and
   the last_request_time of the instance. *)

TitleConvex ==
    <<"T","i","g","h","t"," ","b","o","u","n","d","s"," ","f","o","r"," ","c","o","n","v","e","x"," ","o","p","t","i","m","i","z","a","t","i","o","n">>

SummaryConvex ==
    <<"W","e"," ","p","r","o","v","e"," ","l","o","w","e","r"," ","b","o","u","n","d","s",".">>

RepoEmail ==
    <<"a","c","m","e","/","e","m","a","i","l","-","t","e","m","p","l","a","t","e","s">>

RepoLLM ==
    <<"a","c","m","e","/","l","l","m","-","s","e","r","v","e","r">>

RepoPlain ==
    <<"a","c","m","e","/","d","o","t","f","i","l","e","s">>

DescriptionEmail ==
    <<"R","e","s","p","o","n","s","i","v","e"," ","l","a","y","o","u","t","s"," ","f","o","r"," ","n","e","w","s","l","e","t","t","e","r","s">>

DescriptionLLM ==
    <<"S","e","r","v","e"," ","a"," ","l","a","r","g","e"," ","l","a","n","g","u","a","g","e"," ","m","o","d","e","l">>

TrendingPrefix ==
    <<"T","r","e","n","d","i","n","g",":"," ">>

NewModelPrefix ==
    <<"N","e","w"," ","M","o","d","e","l",":"," ">>

DownloadsPrefix ==
    <<"D","o","w","n","l","o","a","d","s",":"," ">>

LikesInfix ==
    <<","," ","L","i","k","e","s",":"," ">>

ModelLlm ==
    <<"a","c","m","e","/","l","l","m","-","7","b">>

ModelSmall ==
    <<"a","c","m","e","/","t","i","n","y">>

\* The keywords GitHubTrendingCrawler.crawl looks for in name and description
github_keywords ==
    << <<"a","i">>,
       <<"m","l">>,
       <<"m","a","c","h","i","n","e"," ","l","e","a","r","n","i","n","g">>,
       <<"n","e","u","r","a","l">>,
       <<"d","e","e","p"," ","l","e","a","r","n","i","n","g">>,
       <<"t","r","a","n","s","f","o","r","m","e","r">>,
       <<"l","l","m">>,
       <<"g","p","t">>,
       <<"b","e","r","t">>,
       <<"p","y","t","o","r","c","h">>,
       <<"t","e","n","s","o","r","f","l","o","w">> >>

\* A text one character longer than the longest summary a feed article keeps;
\* it begins with "ai"
LongText ==
    [ i \in 1 .. (SummaryLimit + 1) |->
          IF i = 1 THEN "a" ELSE IF i = 2 THEN "i" ELSE "x" ]

\* What crawl() gives back to the model: the articles it returns, its network
\* calls, the clock when it ended and the instance's last_request_time
Crawled(articles, log, now, last) ==
    [raised |-> FALSE, articles |-> articles, calls |-> log, now |-> now,
     last |-> last]

\* A crawl() that lets an exception out
Escaped(log, now, last) ==
    [raised |-> TRUE, articles |-> << >>, calls |-> log, now |-> now, last |-> last]

\* not link.startswith('http')
RelativeLinks == {"/posts/1", "/acme/email-templates", "/acme/llm-server",
                  "/acme/dotfiles", "/paper/convex", "/paper/nine"}

\* urljoin(base_url, link)
Urljoin(base_url, link) == IF link \in RelativeLinks THEN base_url \o link ELSE link

\* One element of a scraped page: what select_one gives for the title, the
\* date and the link; a missing element is None
PageElement(title, date, link) == [title |-> title, date |-> date, link |-> link]

\* The body of the for loop of WebScrapingCrawler.crawl for one element
WebElement(self, element, now) ==
    IF element.title = None \/ element.link = None THEN [kind |-> "skip"]
    ELSE LET title == element.title[1]
             date_str == GetAttr(element.date, EmptyDate)
             link == Urljoin("https://lab.example.org", element.link[1])
         IN  IF ~is_within_timeframe(date_str, DefaultDaysBack, now).value
             THEN [kind |-> "skip"]
             ELSE IF ~is_ai_relevant(title, << >>, self.tags)
             THEN [kind |-> "skip"]
             ELSE [kind |-> "article",
                   article |-> Article(title, << >>, date_str, link, self.tags,
                                       self.name, None,
                                       get_priority(title, date_str, << >>, now),
                                       now)]

\* The articles a for loop over items builds, one body per item; an item that
\* is skipped, or whose body raises inside the inner try, adds nothing
RECURSIVE Collect(_, _)
Collect(outcomes, i) ==
    IF i > Len(outcomes) THEN << >>
    ELSE IF outcomes[i].kind = "article"
    THEN << outcomes[i].article >> \o Collect(outcomes, i + 1)
    ELSE Collect(outcomes, i + 1)

\* WebScrapingCrawler.crawl without its outer try: a request that raises ends
\* crawl() with the exception
WebCrawlUnguarded(self, script, page, now, last) ==
    LET r == make_request(self, script, now, last)
    IN  IF r.raised THEN Escaped(r.calls, r.now, r.last)
        ELSE Crawled(Collect([ k \in DOMAIN page |-> WebElement(self, page[k], r.now) ], 1),
                     r.calls, r.now, r.last)

\* WebScrapingCrawler.crawl: a request that raises is caught by the outer try
WebCrawl(self, script, page, now, last) ==
    LET r == make_request(self, script, now, last)
    IN  IF r.raised THEN Crawled(<< >>, r.calls, r.now, r.last)
        ELSE Crawled(Collect([ k \in DOMAIN page |-> WebElement(self, page[k], r.now) ], 1),
                     r.calls, r.now, r.last)

\* One repository of the trending page: name and link (title_elem) and
\* description (desc_elem); a missing element is None
Repo(name, description, href) ==
    [name |-> name, description |-> description, href |-> href]

\* The body of the inner for loop of GitHubTrendingCrawler.crawl
GitHubRepo(self, repo, period, now) ==
    IF repo.name = None THEN [kind |-> "skip"]
    ELSE LET repo_name == repo.name[1]
             description == GetAttr(repo.description, << >>)
             repo_url == Urljoin("https://github.com", repo.href)
         IN  IF ~AnyKeyword(github_keywords, Lower(repo_name \o description))
             THEN [kind |-> "skip"]
             ELSE [kind |-> "article",
                   article |-> Article(TrendingPrefix \o repo_name, << >>,
                                       DateStr("iso_tz", now), repo_url,
                                       << "github", "trending", "repository",
                                          "open-source", period >>,
                                       "GitHub Trending", Some(description),
                                       "medium", now)]

GitHubPeriods == << "daily", "weekly" >>

\* The outer for loop of GitHubTrendingCrawler.crawl from period p on.  A
\* request that raises leaves the loop for the outer except clause, and the
\* articles of the periods before are returned
RECURSIVE GitHubLoop(_, _, _, _, _, _, _)
GitHubLoop(self, answers, p, now, last, articles, log) ==
    IF p > Len(GitHubPeriods) THEN Crawled(articles, log, now, last)
    ELSE LET r == make_request(self, answers[p].script, now, last)
         IN  IF r.raised THEN Crawled(articles, log \o r.calls, r.now, r.last)
             ELSE GitHubLoop(self, answers, p + 1, r.now, r.last,
                      articles \o Collect([ k \in DOMAIN answers[p].page |->
                                                GitHubRepo(self, answers[p].page[k],
                                                           GitHubPeriods[p], r.now) ], 1),
                      log \o r.calls)

\* GitHubTrendingCrawler.crawl
GitHubCrawl(self, answers, now, last) ==
    GitHubLoop(self, answers, 1, now, last, << >>, << >>)

DigitChars == << "0", "1", "2", "3", "4", "5", "6", "7", "8", "9" >>

\* str(n) for n >= 0
RECURSIVE FormatInt(_)
FormatInt(n) ==
    IF n < 10 THEN << DigitChars[n + 1] >>
    ELSE FormatInt(n \div 10) \o << DigitChars[(n % 10) + 1] >>

\* One model of the JSON list of the model hub; path is modelId as it stands
\* in a URL
HubModel(createdAt, modelId, path, author, downloads, likes) ==
    [createdAt |-> createdAt, modelId |-> modelId, path |-> path,
     author |-> author, downloads |-> downloads, likes |-> likes]

\* The loop body with inclusive thresholds for the priority high
HuggingFaceModelInclusive(self, model, now) ==
    IF ~is_within_timeframe(model.createdAt, DefaultDaysBack, now).value
    THEN [kind |-> "skip"]
    ELSE IF model.downloads < 100 /\ model.likes < 10 THEN [kind |-> "skip"]
    ELSE [kind |-> "article",
          article |->
              Article(NewModelPrefix \o model.modelId,
                      IF model.author = "" THEN << >> ELSE << model.author >>,
                      model.createdAt,
                      "https://huggingface.co/" \o model.path,
                      << "huggingface", "model", "release", "ml", "nlp" >>,
                      "Hugging Face Models",
                      Some(DownloadsPrefix \o FormatInt(model.downloads)
                               \o LikesInfix \o FormatInt(model.likes)),
                      IF model.likes >= 100 \/ model.downloads >= 10000
                      THEN "high" ELSE "medium",
                      now)]

\* The body of the for loop of HuggingFaceAPICrawler.crawl
HuggingFaceModel(self, model, now) ==
    IF ~is_within_timeframe(model.createdAt, DefaultDaysBack, now).value
    THEN [kind |-> "skip"]
    ELSE IF model.downloads < 100 /\ model.likes < 10 THEN [kind |-> "skip"]
    ELSE [kind |-> "article",
          article |->
              Article(NewModelPrefix \o model.modelId,
                      IF model.author = "" THEN << >> ELSE << model.author >>,
                      model.createdAt,
                      "https://huggingface.co/" \o model.path,
                      << "huggingface", "model", "release", "ml", "nlp" >>,
                      "Hugging Face Models",
                      Some(DownloadsPrefix \o FormatInt(model.downloads)
                               \o LikesInfix \o FormatInt(model.likes)),
                      IF model.likes > 100 \/ model.downloads > 10000
                      THEN "high" ELSE "medium",
                      now)]

\* HuggingFaceAPICrawler.crawl
HuggingFaceCrawl(self, script, models, now, last) ==
    LET r == make_request(self, script, now, last)
    IN  IF r.raised THEN Crawled(<< >>, r.calls, r.now, r.last)
        ELSE Crawled(Collect([ k \in DOMAIN models |->
                                   HuggingFaceModel(self, models[k], r.now) ], 1),
                     r.calls, r.now, r.last)

\* One card of the latest-papers page: title and link, date and authors; a
\* missing element is None.  authors is what split(',') gives, stripped
PaperCard(title, date, authors, href) ==
    [title |-> title, date |-> date, authors |-> authors, href |-> href]

\* ''.split(',') is [''], so a card without authors has the one author ''
CardAuthors(card) ==
    IF card.authors = None THEN << "" >> ELSE Take(card.authors[1], 3)

\* The body of the for loop of PapersWithCodeCrawler.crawl: no relevance check
PapersCard(self, card, now) ==
    IF card.title = None THEN [kind |-> "skip"]
    ELSE LET title == card.title[1]
             paper_url == Urljoin("https://paperswithcode.com", card.href)
             date_str == GetAttr(card.date, EmptyDate)
         IN  IF ~is_within_timeframe(date_str, DefaultDaysBack, now).value
             THEN [kind |-> "skip"]
             ELSE [kind |-> "article",
                   article |-> Article(title, CardAuthors(card), date_str, paper_url,
                                       << "papers-with-code", "research",
                                          "implementation", "sota" >>,
                                       "Papers with Code", None,
                                       get_priority(title, date_str, << >>, now),
                                       now)]

\* PapersWithCodeCrawler.crawl
PapersCrawl(self, script, cards, now, last) ==
    LET r == make_request(self, script, now, last)
    IN  IF r.raised THEN Crawled(<< >>, r.calls, r.now, r.last)
        ELSE Crawled(Collect([ k \in DOMAIN cards |-> PapersCard(self, cards[k], r.now) ], 1),
                     r.calls, r.now, r.last)

\* One result of an arXiv search; published is a timezone-aware datetime
Paper(title, published, summary, authors, entry_id) ==
    [title |-> title, published |-> published, summary |-> summary,
     authors |-> authors, entry_id |-> entry_id]

\* The body of the inner for loop of ArxivCrawler.crawl: no relevance check
ArxivPaper(self, paper, category, now) ==
    LET date_str == DateStr("iso_tz", paper.published)
    IN  IF ~is_within_timeframe(date_str, DefaultDaysBack, now).value
        THEN [kind |-> "skip"]
        ELSE [kind |-> "article",
              article |-> Article(paper.title, paper.authors, date_str, paper.entry_id,
                                  << "arxiv", "research", "academic", category >>,
                                  "arXiv",
                                  IF paper.summary = << >> THEN None
                                  ELSE Some(Take(paper.summary, SummaryLimit)),
                                  get_priority(paper.title, date_str, paper.summary, now),
                                  now)]

\* The outer for loop of ArxivCrawler.crawl from category c on: throttle(),
\* then the search; a search that raises leaves the loop for the except
\* clause, and the articles of the categories before are returned
RECURSIVE ArxivLoop(_, _, _, _, _, _, _)
ArxivLoop(self, answers, c, now, last, articles, log) ==
    IF c > Len(self.categories) THEN Crawled(articles, log, now, last)
    ELSE LET th == Throttle(last, self.throttle_delay, now)
             answer == IF answers[c].raises THEN Response(503) ELSE Response(200)
             log2 == Append(log, LibraryCall("arxiv", now, th.now, answer))
             done == th.now + Duration(answer)
         IN  IF answers[c].raises THEN Crawled(articles, log2, done, th.last)
             ELSE ArxivLoop(self, answers, c + 1, done, th.last,
                      articles \o Collect([ k \in DOMAIN answers[c].papers |->
                                                ArxivPaper(self, answers[c].papers[k],
                                                           self.categories[c], done) ], 1),
                      log2)

\* ArxivCrawler.crawl
ArxivCrawl(self, answers, now, last) ==
    ArxivLoop(self, answers, 1, now, last, << >>, << >>)

\* RSSCrawler.crawl with its network call: throttle(), then feedparser.parse
RssFetch(self, feed, now, last) ==
    LET th == Throttle(last, self.throttle_delay, now)
        answer == IF feed.raises THEN NoResponse ELSE Response(200)
        done == th.now + Duration(answer)
    IN  Crawled(RssCrawl(self, feed, done),
                << LibraryCall("feedparser", now, th.now, answer) >>,
                done, th.last)

-----------------------------------------------------------------------------
(* crawl_all over the fetchers of every kind, each with its network calls *)

FetcherPool ==
    {RssOpenAI, RssMila, WebScraper, Arxiv, GitHubTrending, HuggingFace,
     PapersWithCode}

\* The network answers every try with the same status
ScriptAll(status) ==
    [ k \in 1 .. max_tries |-> [answer |-> Response(status), jitter |-> 0] ]

\* The network answers the first try with 503 and the tries after it with 200
ScriptRetry ==
    [ k \in 1 .. max_tries |->
          [answer |-> IF k = 1 THEN Response(503) ELSE Response(200), jitter |-> 1] ]

FetchScripts == {ScriptAll(200), ScriptAll(503), ScriptRetry}

EntryLong ==
    FeedEntry(Some(TitleNine), Some(DateStr("iso_tz", T0 - DAY)),
              Some(LongText), None, None, Some("https://example.org/long"))

FetchFeeds ==
    {[raises |-> TRUE, entries |-> << >>],
     FeedOf(<< EntryPasta >>), FeedOf(<< EntryX >>),
     FeedOf(<< EntryLong, EntryPasta >>)}

WebPages ==
    {<< PageElement(Some(TitlePasta), Some(DateStr("iso_tz", T0 - DAY)),
                    Some("https://lab.example.org/pasta")) >>,
     << PageElement(Some(TitleNine), Some(GarbageDate), Some("/posts/1")) >>,
     << PageElement(None, None, Some("/posts/1")),
        PageElement(Some(TitleX), None, Some("https://lab.example.org/x")) >>}

GitHubPages ==
    {<< Repo(Some(RepoEmail), Some(DescriptionEmail), "/acme/email-templates") >>,
     << Repo(Some(RepoLLM), Some(LongText), "/acme/llm-server") >>,
     << Repo(Some(RepoLLM), Some(DescriptionLLM), "/acme/llm-server"),
        Repo(Some(RepoPlain), None, "/acme/dotfiles") >>}

GitHubAnswers == [1 .. Len(GitHubPeriods) -> [script : FetchScripts, page : GitHubPages]]

HubModels ==
    {<< HubModel(DateStr("iso_tz", T0 - DAY), ModelLlm, "acme/llm-7b", "acme", 20000, 5) >>,
     << HubModel(DateStr("iso_tz", T0 - DAY), ModelSmall, "acme/tiny", "", 99, 9),
        HubModel(DateStr("iso_tz", T0 - 4 * DAY), ModelLlm, "acme/llm-7b", "acme", 500, 200),
        HubModel(EmptyDate, ModelSmall, "acme/tiny", "", 100, 0) >>}

PaperCards ==
    {<< PaperCard(Some(TitleConvex), Some(DateStr("iso_naive", T0 - DAY)),
                  Some(<< "A. Author", "B. Author", "C. Author", "D. Author" >>),
                  "/paper/convex") >>,
     << PaperCard(None, None, None, "/paper/convex"),
        PaperCard(Some(TitleNine), None, None, "/paper/nine"),
        PaperCard(Some(TitleConvex), Some(DateStr("iso_naive", T0 - DAY)),
                  Some(<< "A. Author" >>), "/paper/convex") >>}

ArxivPapers ==
    {<< >>,
     << Paper(TitleConvex, T0 - DAY, SummaryConvex, << "A. Author" >>,
              "http://arxiv.org/abs/2601.00001v1") >>,
     << Paper(TitleNine, T0 - 2 * DAY, LongText, << "A. Author", "B. Author" >>,
              "http://arxiv.org/abs/2601.00002v1"),
        Paper(TitleEight, T0 - 4 * DAY, SummaryConvex, << >>,
              "http://arxiv.org/abs/2601.00003v1") >>}

\* What the arXiv searches answer, category by category: the papers of the
\* first category, nothing for the others, and the search of category r raises
ArxivAnswers ==
    { [ c \in 1 .. Len(Arxiv.categories) |->
            [raises |-> c = r, papers |-> IF c = 1 THEN papers ELSE << >>] ] :
          papers \in ArxivPapers, r \in 0 .. 2 }

InitFetchers ==
    /\ \E cs \in SeqsUpTo(FetcherPool, MaxCrawlers) : Constructed(cs)
    /\ probe_args = << >>

\* One pass of the for loop of crawl_all whose crawl() gave r: lines 107-115,
\* with the network calls of the crawl and the time it took
Fetched(r) ==
    /\ Len(all_articles) + Len(r.articles) <= MaxArticles
    /\ all_articles' = all_articles \o r.articles
    /\ calls' = Append(calls, [crawler |-> idx, raised |-> r.raised,
                               before |-> Len(all_articles),
                               after |-> Len(all_articles')])
    /\ clock' = IF r.raised THEN r.now ELSE r.now + PauseTicks
    /\ last_request_time' = [last_request_time EXCEPT ![idx] = r.last]
    /\ network' = network \o Logged(idx, idx, r.calls)
    /\ request_no' = request_no + 1
    /\ Advance(all_articles')
    /\ UNCHANGED << crawlers, days_back, started, probe_args, probe_result, init_vars >>

FetchRss ==
    /\ pc = "loop"
    /\ crawlers[idx].kind = "rss"
    /\ \E feed \in FetchFeeds :
           Fetched(RssFetch(crawlers[idx], feed, clock, last_request_time[idx]))

FetchWeb ==
    /\ pc = "loop"
    /\ crawlers[idx].kind = "web"
    /\ \E script \in FetchScripts, page \in WebPages :
           Fetched(WebCrawl(crawlers[idx], script, page, clock, last_request_time[idx]))

FetchArxiv ==
    /\ pc = "loop"
    /\ crawlers[idx].kind = "arxiv"
    /\ \E answers \in ArxivAnswers :
           Fetched(ArxivCrawl(crawlers[idx], answers, clock, last_request_time[idx]))

FetchGitHub ==
    /\ pc = "loop"
    /\ crawlers[idx].kind = "github"
    /\ \E answers \in GitHubAnswers :
           Fetched(GitHubCrawl(crawlers[idx], answers, clock, last_request_time[idx]))

FetchHuggingFace ==
    /\ pc = "loop"
    /\ crawlers[idx].kind = "huggingface"
    /\ \E script \in FetchScripts, models \in HubModels :
           Fetched(HuggingFaceCrawl(crawlers[idx], script, models, clock,
                                    last_request_time[idx]))

FetchPapers ==
    /\ pc = "loop"
    /\ crawlers[idx].kind = "papers"
    /\ \E script \in FetchScripts, cards \in PaperCards :
           Fetched(PapersCrawl(crawlers[idx], script, cards, clock,
                               last_request_time[idx]))

NextFetchers ==
    \/ CallCrawlAll
    \/ FetchRss
    \/ FetchWeb
    \/ FetchArxiv
    \/ FetchGitHub
    \/ FetchHuggingFace
    \/ FetchPapers

SpecFetchers == InitFetchers /\ [][NextFetchers]_vars

-----------------------------------------------------------------------------
(* get_priority called on its own *)

\* 00:00:00 UTC of the day of an instant
DayStart(t) == (t \div DAY) * DAY

\* Instants around the ends of today, yesterday and the day before
PriorityInstants ==
    { DayStart(now) - d * DAY + off :
          now \in ProbeNows, d \in 0 .. 2, off \in {0 - 1, 0, 3600 * SECOND} }

PriorityDates ==
    {EmptyDate, GarbageDate}
    \cup { DateStr(k, t) : k \in {"rfc", "iso_tz", "iso_naive"}, t \in PriorityInstants }

InitPriority ==
    /\ Constructed(<< >>)
    /\ \E title \in {TitlePasta, TitleX, TitleNine}, d \in PriorityDates,
          summary \in {<< >>, SummaryFunding}, now \in ProbeNows :
           probe_args = << [title |-> title, date |-> d, summary |-> summary,
                            now |-> now] >>

CallGetPriority ==
    /\ probe_args # << >>
    /\ probe_result = << >>
    /\ probe_result' =
           << get_priority(probe_args[1].title, probe_args[1].date,
                           probe_args[1].summary, probe_args[1].now) >>
    /\ UNCHANGED << pc, crawlers, days_back, idx, all_articles, unique_articles,
                    sorted_articles, calls, clock, started, probe_args >>
    /\ UNCHANGED << init_vars, layer_vars >>

NextPriority == CallGetPriority

SpecPriority == InitPriority /\ [][NextPriority]_vars

-----------------------------------------------------------------------------
(* Construction of the orchestrator: AIKnowledgeCrawler.__init__ and
   _initialize_crawlers over the registry of crawler_config.py *)

\* The most descriptors of a category in a registry cut short
MaxSources == 2

\* CrawlerConfig.get_corporate_ai_sources(); throttle_delay is in half seconds
get_corporate_ai_sources ==
    << [name |-> "OpenAI Blog", type |-> "rss",
        tags |-> << "openai", "corporate", "research", "gpt", "llm" >>,
        throttle_delay |-> 3],
       [name |-> "Anthropic News", type |-> "rss",
        tags |-> << "anthropic", "corporate", "safety", "claude", "constitutional-ai" >>,
        throttle_delay |-> 3],
       [name |-> "Google AI Blog", type |-> "rss",
        tags |-> << "google", "corporate", "research", "deepmind", "bard" >>,
        throttle_delay |-> 3],
       [name |-> "Meta AI", type |-> "rss",
        tags |-> << "meta", "corporate", "research", "llama", "pytorch" >>,
        throttle_delay |-> 3],
       [name |-> "Microsoft Research AI", type |-> "rss",
        tags |-> << "microsoft", "corporate", "research", "azure", "copilot" >>,
        throttle_delay |-> 3],
       [name |-> "Amazon Science", type |-> "rss",
        tags |-> << "amazon", "corporate", "research", "alexa", "aws" >>,
        throttle_delay |-> 3],
       [name |-> "Apple Machine Learning Research", type |-> "rss",
        tags |-> << "apple", "corporate", "research", "mobile-ai", "privacy" >>,
        throttle_delay |-> 3],
       [name |-> "NVIDIA AI Research", type |-> "rss",
        tags |-> << "nvidia", "corporate", "hardware", "gpu", "cuda" >>,
        throttle_delay |-> 3],
       [name |-> "IBM Research AI", type |-> "rss",
        tags |-> << "ibm", "corporate", "research", "watson", "enterprise" >>,
        throttle_delay |-> 3] >>

\* CrawlerConfig.get_ai_startup_sources(); throttle_delay is in half seconds
get_ai_startup_sources ==
    << [name |-> "Cohere Blog", type |-> "rss",
        tags |-> << "cohere", "startup", "llm", "embeddings", "enterprise" >>,
        throttle_delay |-> 4],
       [name |-> "Hugging Face Blog", type |-> "rss",
        tags |-> << "huggingface", "startup", "open-source", "transformers", "datasets" >>,
        throttle_delay |-> 4],
       [name |-> "Stability AI Blog", type |-> "rss",
        tags |-> << "stability", "startup", "generative", "stable-diffusion", "image-ai" >>,
        throttle_delay |-> 4] >>

\* CrawlerConfig.get_academic_sources(); throttle_delay is in half seconds
get_academic_sources ==
    << [name |-> "arXiv AI/ML", type |-> "arxiv",
        tags |-> << "arxiv", "research", "academic", "preprint" >>,
        categories |-> << "cs.AI", "cs.LG", "cs.CL", "cs.CV", "cs.NE", "cs.RO" >>,
        throttle_delay |-> 2] >>

\* CrawlerConfig.get_implementation_hub_sources(); throttle_delay is in half seconds
get_implementation_hub_sources ==
    << [name |-> "Hugging Face Model Hub", type |-> "huggingface_api",
        tags |-> << "huggingface", "models", "implementation", "open-source" >>,
        throttle_delay |-> 4],
       [name |-> "GitHub Trending AI", type |-> "github_trending",
        tags |-> << "github", "trending", "repository", "open-source" >>,
        throttle_delay |-> 4],
       [name |-> "Papers with Code", type |-> "papers_with_code",
        tags |-> << "papers-with-code", "implementation", "benchmarks", "sota" >>,
        throttle_delay |-> 4] >>

\* CrawlerConfig.get_research_institute_sources(); throttle_delay is in half seconds
get_research_institute_sources ==
    << [name |-> "Allen Institute for AI", type |-> "rss",
        tags |-> << "ai2", "research", "institute", "nlp", "computer-vision" >>,
        throttle_delay |-> 3],
       [name |-> "MILA News", type |-> "rss",
        tags |-> << "mila", "research", "institute", "deep-learning", "quebec" >>,
        throttle_delay |-> 3],
       [name |-> "Stanford HAI", type |-> "rss",
        tags |-> << "stanford", "research", "institute", "human-ai", "ethics" >>,
        throttle_delay |-> 3],
       [name |-> "Berkeley AI Research", type |-> "rss",
        tags |-> << "berkeley", "research", "institute", "bair", "robotics" >>,
        throttle_delay |-> 3],
       [name |-> "MIT CSAIL", type |-> "rss",
        tags |-> << "mit", "research", "institute", "csail", "computer-science" >>,
        throttle_delay |-> 3],
       [name |-> "Facebook AI Research (FAIR)", type |-> "rss",
        tags |-> << "fair", "research", "institute", "facebook", "meta" >>,
        throttle_delay |-> 3] >>

\* CrawlerConfig.get_all_sources()
get_all_sources ==
    [corporate |-> get_corporate_ai_sources,
     startups |-> get_ai_startup_sources,
     academic |-> get_academic_sources,
     implementation |-> get_implementation_hub_sources,
     institutes |-> get_research_institute_sources]

Categories == {"corporate", "startups", "academic", "implementation", "institutes"}

\* The registries the orchestrator is constructed over: the registry of
\* crawler_config.py, and that registry with every category cut to its first
\* descriptors
Registries ==
    {get_all_sources}
    \cup { [ c \in Categories |-> Take(get_all_sources[c], cut[c]) ] :
               cut \in [Categories -> 0 .. MaxSources] }

\* RSSCrawler(source['name'], source['url'], source['tags'], throttle_delay)
NewRSSCrawler(source) ==
    [kind |-> "rss", name |-> source.name, tags |-> source.tags,
     throttle_delay |-> source.throttle_delay]

\* ArxivCrawler(source.get('categories'), throttle_delay)
NewArxivCrawler(source) ==
    [kind |-> "arxiv", name |-> "arXiv", categories |-> source.categories,
     throttle_delay |-> source.throttle_delay]

\* The fetchers one descriptor of a category adds to the list: the if and
\* elif chains of the five for loops; a descriptor of another type adds none
NewCrawlers(category, source) ==
    CASE category \in {"corporate", "startups", "institutes"} /\ source.type = "rss" ->
             << NewRSSCrawler(source) >>
      [] category = "academic" /\ source.type = "arxiv" ->
             << NewArxivCrawler(source) >>
      [] category = "implementation" /\ source.type = "github_trending" ->
             << [kind |-> "github", name |-> "GitHub Trending",
                 throttle_delay |-> source.throttle_delay] >>
      [] category = "implementation" /\ source.type = "huggingface_api" ->
             << [kind |-> "huggingface", name |-> "Hugging Face Models",
                 throttle_delay |-> source.throttle_delay] >>
      [] category = "implementation" /\ source.type = "papers_with_code" ->
             << [kind |-> "papers", name |-> "Papers with Code",
                 throttle_delay |-> source.throttle_delay] >>
      [] OTHER -> << >>

\* One for loop of _initialize_crawlers, from descriptor i of the category on
RECURSIVE InitializeLoop(_, _, _, _)
InitializeLoop(category, sources, i, list) ==
    IF i > Len(sources) THEN list
    ELSE InitializeLoop(category, sources, i + 1,
                        list \o NewCrawlers(category, sources[i]))

InitConstruct ==
    /\ pc = "new"
    /\ registry \in Registries
    /\ built = << >>
    /\ has_logger = FALSE
    /\ crawlers = << >>
    /\ days_back = DefaultDaysBack
    /\ idx = 0
    /\ all_articles = << >>
    /\ unique_articles = << >>
    /\ sorted_articles = << >>
    /\ calls = << >>
    /\ clock = T0
    /\ started = T0
    /\ probe_args = << >>
    /\ probe_result = << >>
    /\ last_request_time = << >>
    /\ network = << >>
    /\ request_no = 0

\* What a step of the construction leaves alone
ConstructFrame ==
    UNCHANGED << days_back, idx, all_articles, unique_articles, sorted_articles,
                 calls, clock, started, probe_args, probe_result, registry,
                 network, request_no >>

\* AIKnowledgeCrawler() is called: __init__ enters _initialize_crawlers
CallConstructor ==
    /\ pc = "new"
    /\ pc' = "corporate"
    /\ built' = << >>
    /\ UNCHANGED << crawlers, has_logger, last_request_time >>
    /\ ConstructFrame

\* The for loop of _initialize_crawlers over one category
Initialize(category, next) ==
    /\ pc = category
    /\ built' = InitializeLoop(category, registry[category], 1, built)
    /\ pc' = next
    /\ UNCHANGED << crawlers, has_logger, last_request_time >>
    /\ ConstructFrame

InitializeCorporate == Initialize("corporate", "startups")

InitializeStartups == Initialize("startups", "academic")

InitializeAcademic == Initialize("academic", "implementation")

InitializeImplementation == Initialize("implementation", "institutes")

InitializeInstitutes == Initialize("institutes", "log")

\* Line 96 of _initialize_crawlers reads self.logger, which __init__ assigns
\* only after _initialize_crawlers has returned: without it the read raises
\* AttributeError and the constructor ends; with it the list is returned and
\* __init__ assigns self.crawlers and self.logger
FinishConstruction ==
    /\ pc = "log"
    /\ IF has_logger
       THEN /\ pc' = "idle"
            /\ crawlers' = built
            /\ last_request_time' = [ i \in DOMAIN built |-> 0 ]
            /\ has_logger' = TRUE
       ELSE /\ pc' = "init_raised"
            /\ UNCHANGED << crawlers, has_logger, last_request_time >>
    /\ UNCHANGED built
    /\ ConstructFrame

NextConstruct ==
    \/ CallConstructor
    \/ InitializeCorporate
    \/ InitializeStartups
    \/ InitializeAcademic
    \/ InitializeImplementation
    \/ InitializeInstitutes
    \/ FinishConstruction

SpecConstruct == InitConstruct /\ [][NextConstruct]_vars

-----------------------------------------------------------------------------
(* Serialization: Article.to_dict, the line save_to_jsonl writes for it, and
   the Article rebuilt from the line *)

\* The fields of the Article dataclass, in declaration order
ArticleFields ==
    << "title", "authors", "date", "url", "tags", "source", "summary",
       "priority", "crawled_at" >>

\* The values of a dict of to_dict: a str of characters, a str the model
\* keeps whole, a list of str, or None
PyText(chars) == [py |-> "text", v |-> chars]

PyStr(v) == [py |-> "str", v |-> v]

PyList(items) == [py |-> "list", v |-> items]

PyNone == [py |-> "none"]

\* to_dict writing an absent summary as the empty string
to_dict_empty_summary(article) ==
    [title |-> PyText(article.title),
     authors |-> PyList(article.authors),
     date |-> PyStr(article.date),
     url |-> PyStr(article.url),
     tags |-> PyList(article.tags),
     source |-> PyStr(article.source),
     summary |-> IF article.summary = None THEN PyText(<< >>)
                 ELSE PyText(article.summary[1]),
     priority |-> PyStr(article.priority),
     crawled_at |-> PyStr(article.crawled_at)]

\* Article.to_dict: asdict(self)
to_dict(article) ==
    [title |-> PyText(article.title),
     authors |-> PyList(article.authors),
     date |-> PyStr(article.date),
     url |-> PyStr(article.url),
     tags |-> PyList(article.tags),
     source |-> PyStr(article.source),
     summary |-> IF article.summary = None THEN PyNone
                 ELSE PyText(article.summary[1]),
     priority |-> PyStr(article.priority),
     crawled_at |-> PyStr(article.crawled_at)]

\* The characters of a JSON string literal for a text: the quote and the
\* backslash get a backslash before them, a newline becomes \n
RECURSIVE EscapeText(_)
EscapeText(chars) ==
    IF chars = << >> THEN << >>
    ELSE LET c == Head(chars)
         IN  (IF c = "\"" THEN << "\\", "\"" >>
              ELSE IF c = "\\" THEN << "\\", "\\" >>
              ELSE IF c = "\n" THEN << "\\", "n" >>
              ELSE << c >>) \o EscapeText(Tail(chars))

\* The text of the characters of a JSON string literal
RECURSIVE UnescapeText(_)
UnescapeText(chars) ==
    IF chars = << >> THEN << >>
    ELSE IF Head(chars) = "\\" /\ Len(chars) >= 2
    THEN << IF chars[2] = "n" THEN "\n" ELSE chars[2] >> \o UnescapeText(Tail(Tail(chars)))
    ELSE << Head(chars) >> \o UnescapeText(Tail(chars))

\* A JSON text is a sequence of tokens: punctuation, null, and string
\* literals (of escaped characters, or of a str the model keeps whole)
Token(t) == [t |-> t]

Literal(t, v) == [t |-> t, v |-> v]

RECURSIVE DumpItems(_, _)
DumpItems(items, i) ==
    IF i > Len(items) THEN << >>
    ELSE (IF i > 1 THEN << Token(",") >> ELSE << >>)
         \o << Literal("atom", items[i]) >> \o DumpItems(items, i + 1)

\* json.dumps of one value
DumpValue(value) ==
    CASE value.py = "none" -> << Token("null") >>
      [] value.py = "text" -> << Literal("chars", EscapeText(value.v)) >>
      [] value.py = "str" -> << Literal("atom", value.v) >>
      [] value.py = "list" -> << Token("[") >> \o DumpItems(value.v, 1) \o << Token("]") >>

RECURSIVE DumpMembers(_, _)
DumpMembers(dict, i) ==
    IF i > Len(ArticleFields) THEN << >>
    ELSE (IF i > 1 THEN << Token(",") >> ELSE << >>)
         \o << Literal("key", ArticleFields[i]), Token(":") >>
         \o DumpValue(dict[ArticleFields[i]])
         \o DumpMembers(dict, i + 1)

\* The line writer.write(article.to_dict()) writes: json.dumps(dict)
Dumps(dict) == << Token("{") >> \o DumpMembers(dict, 1) \o << Token("}") >>

\* The items of a JSON array from token i on, up to its closing bracket
RECURSIVE LoadItems(_, _, _)
LoadItems(tokens, i, items) ==
    IF tokens[i].t = "]" THEN [value |-> PyList(items), next |-> i + 1]
    ELSE IF tokens[i].t = "," THEN LoadItems(tokens, i + 1, items)
    ELSE LoadItems(tokens, i + 1, Append(items, tokens[i].v))

\* The value that begins at token i, and the position after it
LoadValue(tokens, i) ==
    CASE tokens[i].t = "null" -> [value |-> PyNone, next |-> i + 1]
      [] tokens[i].t = "chars" ->
             [value |-> PyText(UnescapeText(tokens[i].v)), next |-> i + 1]
      [] tokens[i].t = "atom" -> [value |-> PyStr(tokens[i].v), next |-> i + 1]
      [] tokens[i].t = "[" -> LoadItems(tokens, i + 1, << >>)

\* The members of a JSON object from token i on, as pairs of key and value
RECURSIVE LoadMembers(_, _, _)
LoadMembers(tokens, i, members) ==
    IF tokens[i].t = "}" THEN members
    ELSE IF tokens[i].t = "," THEN LoadMembers(tokens, i + 1, members)
    ELSE LET r == LoadValue(tokens, i + 2)
         IN  LoadMembers(tokens, r.next, members \cup {<< tokens[i].v, r.value >>})

\* json.loads of a line: the dict of the object written on it
Loads(tokens) ==
    LET members == LoadMembers(tokens, 2, {})
    IN  [ f \in { m[1] : m \in members } |->
              (CHOOSE m \in members : m[1] = f)[2] ]

\* Article(**record), with __post_init__: crawled_at is stamped with the
\* current instant only when the record has none
ArticleOfRecord(record, now) ==
    Article(record.title.v, record.authors.v, record.date.v, record.url.v,
            record.tags.v, record.source.v,
            IF record.summary.py = "none" THEN None ELSE Some(record.summary.v),
            record.priority.v,
            IF record.crawled_at.py = "none" THEN now ELSE record.crawled_at.v)

\* A title with a quote, a backslash before an n, and a newline in it
TitleQuoted ==
    << "A", "I", " ", "\"", "x", "\"", " ", "\\", "n", " ", "a", "\n", "b" >>

\* The articles that are serialized
SerializedArticles ==
    { Article(title, authors, date, "https://example.org/a", tags, "Source",
              summary, priority, T0) :
          title \in {TitleX, TitleQuoted},
          authors \in {<< >>, << "Sam" >>, << "Ann", "Bob" >>},
          date \in {EmptyDate, DateStr("iso_tz", T0 - DAY)},
          tags \in {<< >>, << "ai", "research" >>},
          summary \in {None, Some(<< >>), Some(SummaryFunding), Some(TitleQuoted)},
          priority \in {"high", "medium", "low"} }

InitSerialize ==
    /\ Constructed(<< >>)
    /\ \E article \in SerializedArticles : probe_args = << article >>

SerializeFrame ==
    /\ UNCHANGED << pc, crawlers, days_back, idx, all_articles, unique_articles,
                    sorted_articles, calls, started, probe_args >>
    /\ UNCHANGED << init_vars, layer_vars >>

\* save_to_jsonl writes the line of the article
SaveToJsonl ==
    /\ probe_args # << >>
    /\ probe_result = << >>
    /\ probe_result' = << [line |-> Dumps(to_dict(probe_args[1]))] >>
    /\ clock' = clock + 1
    /\ SerializeFrame

\* The line is read back and an Article is built from its record
LoadFromJsonl ==
    /\ probe_result # << >>
    /\ DOMAIN probe_result[1] = {"line"}
    /\ probe_result' =
           << [line |-> probe_result[1].line,
               article |-> ArticleOfRecord(Loads(probe_result[1].line), clock)] >>
    /\ clock' = clock + 1
    /\ SerializeFrame

NextSerialize ==
    \/ SaveToJsonl
    \/ LoadFromJsonl

SpecSerialize == InitSerialize /\ [][NextSerialize]_vars

-----------------------------------------------------------------------------
(* Provider selection for the summarizer: load_llm_client *)

KeyGroq == << "g", "r", "o", "q" >>

KeyOpenAI == << "o", "p", "e", "n", "a", "i" >>

KeyAnthropic == << "a", "n", "t", "h", "r", "o", "p", "i", "c" >>

\* list(_PROVIDER_BUILDERS.keys()): a dict keeps insertion order
base_order == << KeyGroq, KeyOpenAI, KeyAnthropic >>

ProviderKeys == { base_order[i] : i \in DOMAIN base_order }

\* provider_label of the client of a provider
ProviderLabel(key) ==
    CASE key = KeyGroq -> "Groq"
      [] key = KeyOpenAI -> "OpenAI"
      [] key = KeyAnthropic -> "Anthropic Claude"

\* What a builder finds for one provider: whether its package imported, the
\* value of its API key variable (absent, or a string that may be empty), and
\* whether the constructor of the package's client raises
Setup(installed, api_key, sdk_raises) ==
    [installed |-> installed, api_key |-> api_key, sdk_raises |-> sdk_raises]

\* _resolve_order that ignores the preferred provider
resolve_order_default(preferred) == base_order

\* _resolve_order(preferred)
resolve_order(preferred) ==
    IF preferred = None \/ preferred = Some(<< >>) THEN base_order
    ELSE LET lowered == Lower(preferred[1])
         IN  IF lowered \notin ProviderKeys THEN base_order
             ELSE << lowered >> \o SelectSeq(base_order, LAMBDA name : name # lowered)

\* builder(): GroqClient(), OpenAIClient() or AnthropicClient()
Builder(key, setup) ==
    IF ~setup.installed THEN [raised |-> TRUE, exc |-> "ImportError"]
    ELSE IF setup.api_key = None \/ setup.api_key = Some(<< >>)
    THEN [raised |-> TRUE, exc |-> "ValueError"]
    ELSE IF setup.sdk_raises THEN [raised |-> TRUE, exc |-> "Exception"]
    ELSE [raised |-> FALSE, provider |-> key, provider_label |-> ProviderLabel(key)]

\* The for loop of load_llm_client from position i of the order: tried is the
\* builders called so far, errors the messages collected
RECURSIVE LoadLoop(_, _, _, _, _)
LoadLoop(order, i, environ, errors, tried) ==
    IF i > Len(order)
    THEN [raised |-> TRUE, exc |-> "EnvironmentError", errors |-> errors,
          tried |-> tried]
    ELSE LET provider_key == order[i]
             built_client == Builder(provider_key, environ[provider_key])
         IN  IF ~built_client.raised
             THEN [raised |-> FALSE, client |-> built_client,
                   errors |-> errors, tried |-> Append(tried, provider_key)]
             ELSE LoadLoop(order, i + 1, environ,
                           Append(errors, << provider_key, built_client.exc >>),
                           Append(tried, provider_key))

\* load_llm_client(preferred_provider)
load_llm_client(preferred_provider, environ) ==
    LoadLoop(resolve_order(preferred_provider), 1, environ, << >>, << >>)

\* The values of an API key variable
ApiKeys == {None, Some(<< >>), Some(<< "s", "k", "-", "1" >>)}

Setups ==
    { Setup(installed, api_key, sdk_raises) :
          installed \in BOOLEAN, api_key \in ApiKeys, sdk_raises \in BOOLEAN }

\* The values of the provider hint
ProviderHints ==
    {None, Some(<< >>), Some(KeyGroq), Some(KeyOpenAI), Some(KeyAnthropic),
     Some(<< "O", "p", "e", "n", "A", "I" >>),
     Some(<< "m", "i", "s", "t", "r", "a", "l" >>)}

InitProviders ==
    /\ Constructed(<< >>)
    /\ \E hint \in ProviderHints, environ \in [ProviderKeys -> Setups] :
           probe_args = << [preferred_provider |-> hint, environ |-> environ] >>

CallLoadLlmClient ==
    /\ probe_args # << >>
    /\ probe_result = << >>
    /\ probe_result' =
           << load_llm_client(probe_args[1].preferred_provider, probe_args[1].environ) >>
    /\ UNCHANGED << pc, crawlers, days_back, idx, all_articles, unique_articles,
                    sorted_articles, calls, clock, started, probe_args >>
    /\ UNCHANGED << init_vars, layer_vars >>

NextProviders == CallLoadLlmClient

SpecProviders == InitProviders /\ [][NextProviders]_vars

-----------------------------------------------------------------------------
(* The summarizer: AISummarizer.generate_summary and its fallback brief, over
   the records of collect_all_news *)

\* The most records of a news_data handed to the summarizer
MaxRecords == 12

\* A str is a sequence of pieces: literal text of the code, and values
Lit(s) == [lit |-> s]

Txt(chars) == [text |-> chars]

\* datetime.now().strftime('%B %d, %Y'): the day of the instant
CurrentDate(now) == [day |-> now \div DAY]

\* ', '.join(items) of collect_all_news
RECURSIVE CommaJoin(_, _)
CommaJoin(items, i) ==
    IF i > Len(items) THEN << >>
    ELSE (IF i > 1 THEN << Lit(", ") >> ELSE << >>)
         \o << Lit(items[i]) >> \o CommaJoin(items, i + 1)

\* One legacy_article of collect_all_news
LegacyArticle(article) ==
    [title |-> article.title,
     summary |-> IF article.summary = None \/ article.summary = Some(<< >>)
                 THEN << >> ELSE article.summary[1],
     link |-> article.url,
     published |-> article.date,
     source |-> article.source,
     priority |-> article.priority,
     authors |-> IF article.authors # << >> THEN CommaJoin(article.authors, 1) ELSE << >>,
     tags |-> CommaJoin(article.tags, 1)]

\* len(set(a.source for a in articles))
TotalSources(articles) ==
    Cardinality({ articles[i].source : i \in DOMAIN articles })

\* The dict collect_all_news returns for the articles of crawl_all
LegacyNews(articles, now) ==
    [articles |-> [ i \in DOMAIN articles |-> LegacyArticle(articles[i]) ],
     trending_topics |-> << >>,
     collection_time |-> now,
     total_sources |-> TotalSources(articles)]

\* format_articles_for_analysis from record i on
RECURSIVE FormatArticles(_, _)
FormatArticles(articles, i) ==
    IF i > Len(articles) THEN << >>
    ELSE << Lit("Article "), Txt(FormatInt(i)), Lit(":\nTitle: "),
            Txt(articles[i].title), Lit("\nSource: "), Lit(articles[i].source),
            Lit("\nPublished: "), articles[i].published, Lit("\nSummary: "),
            Txt(articles[i].summary), Lit("\nLink: "), Lit(articles[i].link),
            Lit("\n--------\n\n") >>
         \o FormatArticles(articles, i + 1)

format_articles_for_analysis(articles) ==
    << Lit("AI News Articles for Analysis:\n\n") >> \o FormatArticles(articles, 1)

\* create_analysis_prompt(news_data)
create_analysis_prompt(news_data, now) ==
    << Lit("You are an AI news analyst ... Today's date is "), CurrentDate(now),
       Lit("Here are the articles to analyze:\n\n") >>
    \o format_articles_for_analysis(news_data.articles)
    \o << Lit("Please create the daily brief now:\n") >>

\* news_data['articles'][:10]
FallbackArticles == 10

\* article['summary'][:100]
ExcerptLimit == 100

\* The lines of the fallback brief for records i to last
RECURSIVE FallbackItems(_, _, _)
FallbackItems(articles, i, last) ==
    IF i > last THEN << >>
    ELSE << Lit("- **"), Txt(articles[i].title), Lit("** ("),
            Lit(articles[i].source), Lit(")\n  "),
            Txt(Take(articles[i].summary, ExcerptLimit)),
            Lit("...\n  [Read more]("), Lit(articles[i].link), Lit(")\n\n") >>
         \o FallbackItems(articles, i + 1, last)

\* The fallback brief over every record, not the first ten
create_fallback_summary_all(news_data, now) ==
    << Lit("\n## "), CurrentDate(now),
       Lit(" - Daily AI Feed Update\n\n### Overview\nAI news update temporarily unavailable ...\n\n### Recent Articles\n") >>
    \o FallbackItems(news_data.articles, 1, Len(news_data.articles))
    \o << Lit("\n*Last Updated: "), CurrentDate(now), Lit("*\n"),
          Lit("\n*Note: This is a fallback summary. ...*") >>

\* create_fallback_summary(news_data)
create_fallback_summary(news_data, now) ==
    << Lit("\n## "), CurrentDate(now),
       Lit(" - Daily AI Feed Update\n\n### Overview\nAI news update temporarily unavailable ...\n\n### Recent Articles\n") >>
    \o FallbackItems(news_data.articles, 1,
                     IF Len(news_data.articles) < FallbackArticles
                     THEN Len(news_data.articles) ELSE FallbackArticles)
    \o << Lit("\n*Last Updated: "), CurrentDate(now), Lit("*\n"),
          Lit("\n*Note: This is a fallback summary. ...*") >>

\* What completion(**request_kwargs) does: it raises, or returns a response
\* whose choices may be empty, whose first message may lack content, or hold
\* None, the empty string or a text
CompletionRaises(exc) == [raised |-> TRUE, exc |-> exc]

CompletionReturns(choices) == [raised |-> FALSE, choices |-> choices]

Message(has_content, content) ==
    [message |-> [has_content |-> has_content, content |-> content]]

\* The try block of generate_summary after completion answered: the text, or
\* the exception it raises
SummaryOf(answer) ==
    IF answer.raised THEN [raised |-> TRUE, exc |-> answer.exc]
    ELSE LET summary ==
                 IF answer.choices # << >>
                 THEN (IF answer.choices[1].message.has_content
                       THEN answer.choices[1].message.content ELSE None)
                 ELSE Some(<< >>)
         IN  IF summary = None \/ summary = Some(<< >>)
             THEN [raised |-> TRUE, exc |-> "ValueError"]
             ELSE [raised |-> FALSE, value |-> << Txt(summary[1]) >>]

\* generate_summary(news_data): the text it returns and the prompts of the
\* text-generation calls it made
generate_summary(news_data, answer, now) ==
    LET prompt == create_analysis_prompt(news_data, now)
        summary == SummaryOf(answer)
    IN  IF summary.raised
        THEN [raised |-> FALSE, value |-> create_fallback_summary(news_data, now),
              completions |-> << prompt >>]
        ELSE [raised |-> FALSE, value |-> summary.value, completions |-> << prompt >>]

\* A summary longer than the excerpt of the fallback brief
SummaryLong == [ i \in 1 .. (ExcerptLimit + 20) |-> IF i % 2 = 1 THEN "a" ELSE "i" ]

\* Article i of a collection: numbered titles, summaries absent, short and long
CollectedArticle(i) ==
    Article(TitleX \o << " " >> \o FormatInt(i), << >>, DateStr("iso_tz", T0 - DAY),
            "https://example.org/" \o ToString(i), << "ai" >>,
            IF i % 2 = 0 THEN "OpenAI Blog" ELSE "arXiv",
            CASE i % 3 = 0 -> None
              [] i % 3 = 1 -> Some(SummaryFunding)
              [] OTHER -> Some(SummaryLong),
            IF i % 2 = 0 THEN "high" ELSE "medium", T0)

\* The news_data of collect_all_news over 1 to MaxRecords articles
NewsPool ==
    { LegacyNews([ i \in 1 .. n |-> CollectedArticle(i + shift) ], T0) :
          n \in 1 .. MaxRecords, shift \in 0 .. 2 }

BriefText == << "#", "#", " ", "O", "v", "e", "r", "v", "i", "e", "w" >>

\* The answers of the text-generation call
CompletionAnswers ==
    { CompletionRaises(exc) : exc \in {"APIConnectionError", "Timeout", "KeyError"} }
    \cup { CompletionReturns(<< >>),
           CompletionReturns(<< Message(FALSE, None) >>),
           CompletionReturns(<< Message(TRUE, None) >>),
           CompletionReturns(<< Message(TRUE, Some(<< >>)) >>),
           CompletionReturns(<< Message(TRUE, Some(BriefText)) >>) }

InitSummarizer ==
    /\ Constructed(<< >>)
    /\ \E news_data \in NewsPool, answer \in CompletionAnswers :
           probe_args = << [news_data |-> news_data, answer |-> answer] >>

CallGenerateSummary ==
    /\ probe_args # << >>
    /\ probe_result = << >>
    /\ probe_result' =
           << generate_summary(probe_args[1].news_data, probe_args[1].answer, clock) >>
    /\ UNCHANGED << pc, crawlers, days_back, idx, all_articles, unique_articles,
                    sorted_articles, calls, clock, started, probe_args >>
    /\ UNCHANGED << init_vars, layer_vars >>

NextSummarizer == CallGenerateSummary

SpecSummarizer == InitSummarizer /\ [][NextSummarizer]_vars

-----------------------------------------------------------------------------
(* crawl() of one fetcher over one payload its source delivers *)

\* The most entries of a payload
MaxPayload == 2

ElementPool ==
    {PageElement(Some(TitlePasta), Some(DateStr("iso_tz", T0 - DAY)),
                 Some("https://lab.example.org/pasta")),
     PageElement(Some(TitleNine), Some(GarbageDate), Some("/posts/1")),
     PageElement(Some(TitleX), None, Some("https://lab.example.org/x")),
     PageElement(None, None, Some("/posts/1")),
     PageElement(Some(TitleEight), Some(DateStr("iso_tz", T0 - DAY)), None)}

RepoPool ==
    {Repo(Some(RepoEmail), Some(DescriptionEmail), "/acme/email-templates"),
     Repo(Some(RepoLLM), Some(DescriptionLLM), "/acme/llm-server"),
     Repo(Some(RepoPlain), None, "/acme/dotfiles"),
     Repo(None, Some(DescriptionLLM), "/acme/llm-server")}

CardPool ==
    {PaperCard(Some(TitleConvex), Some(DateStr("iso_naive", T0 - DAY)),
               Some(<< "A. Author", "B. Author", "C. Author", "D. Author" >>),
               "/paper/convex"),
     PaperCard(Some(TitleNine), None, None, "/paper/nine"),
     PaperCard(Some(TitleEight), Some(DateStr("iso_tz", T0 - 4 * DAY)), None, "/paper/nine"),
     PaperCard(None, None, None, "/paper/convex")}

PaperPool ==
    {Paper(TitleConvex, T0 - DAY, SummaryConvex, << "A. Author" >>,
           "http://arxiv.org/abs/2601.00001v1"),
     Paper(TitleNine, T0 - 2 * DAY, LongText, << "A. Author", "B. Author" >>,
           "http://arxiv.org/abs/2601.00002v1"),
     Paper(TitleEight, T0 - 4 * DAY, << >>, << >>,
           "http://arxiv.org/abs/2601.00003v1")}

\* Download and like counts at and around the thresholds of the model hub
\* fetcher
DownloadCounts == {0, 99, 100, 10000, 10001}

LikeCounts == {0, 9, 10, 100, 101}

ModelPool ==
    { HubModel(createdAt, ModelLlm, "acme/llm-7b", "acme", downloads, likes) :
          createdAt \in {DateStr("iso_tz", T0 - DAY), DateStr("iso_tz", T0 - 4 * DAY),
                         EmptyDate},
          downloads \in DownloadCounts, likes \in LikeCounts }

\* The payloads of every kind of fetcher
PayloadsOf(kind) ==
    CASE kind = "rss" -> SeqsUpTo(EntryPool, MaxPayload)
      [] kind = "web" -> SeqsUpTo(ElementPool, MaxPayload)
      [] kind = "github" -> SeqsUpTo(RepoPool, MaxPayload)
      [] kind = "papers" -> SeqsUpTo(CardPool, MaxPayload)
      [] kind = "arxiv" -> SeqsUpTo(PaperPool, MaxPayload)
      [] kind = "huggingface" ->
             SeqsUpTo(ModelPool, 1)
             \cup { << m, HubModel(DateStr("iso_tz", T0 - DAY), ModelSmall,
                                   "acme/tiny", "", 100, 0) >> : m \in ModelPool }

InitPayload ==
    /\ \E self \in FetcherPool : Constructed(<< self >>)
    /\ \E payload \in PayloadsOf(crawlers[1].kind) : probe_args = << payload >>

\* crawl() ran: what it returned is kept, with its network calls
Crawl(r) ==
    /\ probe_result = << >>
    /\ probe_result' = << r >>
    /\ clock' = r.now
    /\ last_request_time' = [last_request_time EXCEPT ![1] = r.last]
    /\ network' = network \o Logged(1, 1, r.calls)
    /\ request_no' = request_no + 1
    /\ UNCHANGED << pc, crawlers, days_back, idx, all_articles, unique_articles,
                    sorted_articles, calls, started, probe_args, init_vars >>

\* The feed is the payload, or cannot be fetched
CrawlFeed ==
    /\ crawlers[1].kind = "rss"
    /\ \E raises \in BOOLEAN :
           Crawl(RssFetch(crawlers[1], [raises |-> raises, entries |-> probe_args[1]],
                          clock, last_request_time[1]))

CrawlPage ==
    /\ crawlers[1].kind = "web"
    /\ \E script \in FetchScripts :
           Crawl(WebCrawl(crawlers[1], script, probe_args[1], clock,
                          last_request_time[1]))

\* The first category's search gives the payload, the others nothing; the
\* search of category r raises
CrawlPaperIndex ==
    /\ crawlers[1].kind = "arxiv"
    /\ \E r \in 0 .. 2 :
           Crawl(ArxivCrawl(crawlers[1],
                            [ c \in 1 .. Len(crawlers[1].categories) |->
                                  [raises |-> c = r,
                                   papers |-> IF c = 1 THEN probe_args[1] ELSE << >>] ],
                            clock, last_request_time[1]))

\* The daily page is the payload; the weekly request succeeds or fails
CrawlTrending ==
    /\ crawlers[1].kind = "github"
    /\ \E weekly \in {ScriptAll(200), ScriptAll(503)} :
           Crawl(GitHubCrawl(crawlers[1],
                             [ p \in 1 .. Len(GitHubPeriods) |->
                                   IF p = 1
                                   THEN [script |-> ScriptAll(200), page |-> probe_args[1]]
                                   ELSE [script |-> weekly, page |-> << >>] ],
                             clock, last_request_time[1]))

CrawlCatalog ==
    /\ crawlers[1].kind = "huggingface"
    /\ \E script \in FetchScripts :
           Crawl(HuggingFaceCrawl(crawlers[1], script, probe_args[1], clock,
                                  last_request_time[1]))

CrawlListing ==
    /\ crawlers[1].kind = "papers"
    /\ \E script \in FetchScripts :
           Crawl(PapersCrawl(crawlers[1], script, probe_args[1], clock,
                             last_request_time[1]))

NextPayload ==
    \/ CrawlFeed
    \/ CrawlPage
    \/ CrawlPaperIndex
    \/ CrawlTrending
    \/ CrawlCatalog
    \/ CrawlListing

SpecPayload == InitPayload /\ [][NextPayload]_vars

-----------------------------------------------------------------------------
(* The daily run: AINewsAgent.run_daily_update *)

\* The attributes an AIKnowledgeCrawler (and so a NewsCollector) has after
\* construction
CollectorAttributes == {"crawlers", "logger"}

TitleNoArticles ==
    <<"N","o"," ","n","e","w"," ","A","I"," ","a","r","t","i","c","l","e","s"," ","f","o","u","n","d">>

\* The literal part of the placeholder's summary (the current date follows it)
SummaryNoArticles ==
    <<"N","o"," ","s","i","g","n","i","f","i","c","a","n","t"," ","A","I"," ","n","e","w","s"," ","a","r","t","i","c","l","e","s"," ","w","e","r","e"," ","f","o","u","n","d"," ","f","o","r"," ">>

\* AINewsAgent.create_minimal_update: the read of news_collector.rss_feeds
\* raises AttributeError when the collector has no such attribute
create_minimal_update(attributes, now) ==
    IF "rss_feeds" \notin attributes THEN Raise
    ELSE Return([articles |->
                     << [title |-> TitleNoArticles,
                         summary |-> SummaryNoArticles,
                         source |-> "System",
                         published |-> DateStr("iso_naive", now),
                         link |-> "#",
                         priority |-> "low"] >>,
                 trending_topics |-> << >>,
                 collection_time |-> now,
                 total_sources |-> 0])

\* enhance_summary_with_metadata(summary, news_data)
enhance_summary_with_metadata(summary, news_data) ==
    summary \o << Lit("\n\n---\n\n**Summary Statistics:**\n- Articles analyzed: "),
                  Txt(FormatInt(Len(news_data.articles))),
                  Lit("\n- Sources: "), Txt(FormatInt(news_data.total_sources)),
                  Lit("\n- Collection time: "), [instant |-> news_data.collection_time],
                  Lit("\n- Generated by: "), [provider_label |-> "self"], Lit("\n") >>

\* What crawl_all gave collect_all_news: it raised, or returned articles
Collections ==
    {Raise, Return(<< >>), Return(<< CollectedArticle(1) >>),
     Return(<< CollectedArticle(2), CollectedArticle(3) >>)}

\* What the run meets: whether the publishing target answers the health
\* check, what collection gives, what text generation answers, and whether
\* the page update succeeds
DailyInputs ==
    [healthy : BOOLEAN, collected : Collections,
     answer : {CompletionRaises("Timeout"),
               CompletionReturns(<< Message(TRUE, Some(BriefText)) >>)},
     published : BOOLEAN]

\* The progress of one run: the steps taken, the news data, the text handed
\* to the publisher, and what run_daily_update returned
Progress(steps, news_data, page, returned) ==
    [steps |-> steps, news_data |-> news_data, page |-> page, returned |-> returned]

InitDaily ==
    /\ Constructed(<< >>)
    /\ \E input \in DailyInputs : probe_args = << input >>

DailyFrame ==
    /\ UNCHANGED << crawlers, days_back, idx, all_articles, unique_articles,
                    sorted_articles, calls, started, probe_args >>
    /\ UNCHANGED << init_vars, layer_vars >>

\* The step `step` was taken and the run goes on at `next`
Step(step, next, news_data, page) ==
    /\ pc' = next
    /\ probe_result' = << Progress(Append(probe_result[1].steps, step),
                                   news_data, page, None) >>
    /\ clock' = clock + 1
    /\ DailyFrame

\* The step `step` was taken and run_daily_update returns `value`
StepReturns(step, value) ==
    /\ pc' = "returned"
    /\ probe_result' = << Progress(Append(probe_result[1].steps, step),
                                   probe_result[1].news_data, probe_result[1].page,
                                   Some(value)) >>
    /\ clock' = clock + 1
    /\ DailyFrame

CallRunDailyUpdate ==
    /\ pc = "idle"
    /\ probe_args # << >>
    /\ pc' = "health"
    /\ probe_result' = << Progress(<< >>, None, None, None) >>
    /\ clock' = clock
    /\ DailyFrame

\* Lines 86-88: a failed health check ends the run
RunHealthCheck ==
    /\ pc = "health"
    /\ IF probe_args[1].healthy
       THEN Step("health", "collect", None, None)
       ELSE StepReturns("health", FALSE)

\* Lines 91-95: collect_all_news; an exception of crawl_all is caught by the
\* except of line 117; an empty collection goes on to create_minimal_update
CollectAllNews ==
    /\ pc = "collect"
    /\ IF probe_args[1].collected.raised
       THEN StepReturns("collect", FALSE)
       ELSE LET news_data == LegacyNews(probe_args[1].collected.value, clock)
            IN  Step("collect",
                     IF news_data.articles = << >> THEN "minimal" ELSE "summarize",
                     Some(news_data), None)

\* Line 95: news_data = self.create_minimal_update()
CreateMinimalUpdate ==
    /\ pc = "minimal"
    /\ LET r == create_minimal_update(CollectorAttributes, clock)
       IN  IF r.raised
           THEN StepReturns("minimal", FALSE)
           ELSE Step("minimal", "summarize", Some(r.value), None)

\* Lines 100-102: generate_summary and enhance_summary_with_metadata
GenerateSummary ==
    /\ pc = "summarize"
    /\ LET news_data == probe_result[1].news_data[1]
           summary == generate_summary(news_data, probe_args[1].answer, clock)
       IN  Step("summarize", "publish", Some(news_data),
                Some(enhance_summary_with_metadata(summary.value, news_data)))

\* Lines 105-115: update_page_content and the value returned
UpdatePageContent ==
    /\ pc = "publish"
    /\ StepReturns("publish", probe_args[1].published)

NextDaily ==
    \/ CallRunDailyUpdate
    \/ RunHealthCheck
    \/ CollectAllNews
    \/ CreateMinimalUpdate
    \/ GenerateSummary
    \/ UpdatePageContent

SpecDaily == InitDaily /\ [][NextDaily]_vars

-----------------------------------------------------------------------------
(* The aggregate document: AIKnowledgeCrawler.save_to_json *)

\* The longest list of articles that is saved
MaxSaved == 3

\* len([a for a in articles if a.priority == priority])
CountPriority(articles, priority) ==
    Len(SelectSeq(articles, LAMBDA a : a.priority = priority))

\* save_to_json counting each distinct record once
save_to_json_distinct(articles, now) ==
    LET articles_dict == [ i \in DOMAIN articles |-> to_dict(articles[i]) ]
    IN  [articles |-> articles_dict,
         total_count |-> Cardinality({ articles_dict[i] : i \in DOMAIN articles_dict }),
         generated_at |-> DateStr("iso_tz", now),
         sources |-> { articles[i].source : i \in DOMAIN articles },
         crawler_version |-> "1.0.0",
         priority_breakdown |->
             [high |-> CountPriority(articles, "high"),
              medium |-> CountPriority(articles, "medium"),
              low |-> CountPriority(articles, "low")]]

\* The metadata dict save_to_json hands to json.dump; list(set(...)) has no
\* order of its own, so sources is a set
save_to_json(articles, now) ==
    LET articles_dict == [ i \in DOMAIN articles |-> to_dict(articles[i]) ]
    IN  [articles |-> articles_dict,
         total_count |-> Len(articles_dict),
         generated_at |-> DateStr("iso_tz", now),
         sources |-> { articles[i].source : i \in DOMAIN articles },
         crawler_version |-> "1.0.0",
         priority_breakdown |->
             [high |-> CountPriority(articles, "high"),
              medium |-> CountPriority(articles, "medium"),
              low |-> CountPriority(articles, "low")]]

\* The articles that are saved: three sources, and the priorities of the
\* model's fetchers, the default of a record read from elsewhere ("low") and a
\* priority outside the three
SavedArticles ==
    { Article(TitleX, << >>, DateStr("iso_tz", T0 - DAY), "https://example.org/a",
              << "ai" >>, source, None, priority, T0) :
          source \in {"OpenAI Blog", "arXiv", "GitHub Trending"},
          priority \in {"high", "medium", "low", "urgent"} }

InitAggregate ==
    /\ Constructed(<< >>)
    /\ \E articles \in SeqsUpTo(SavedArticles, MaxSaved) : probe_args = << articles >>

\* save_to_json(articles, filename): the document written to the file
SaveToJson ==
    /\ probe_args # << >>
    /\ probe_result = << >>
    /\ probe_result' = << [document |-> save_to_json(probe_args[1], clock)] >>
    /\ clock' = clock + 1
    /\ SerializeFrame

NextAggregate == SaveToJson

SpecAggregate == InitAggregate /\ [][NextAggregate]_vars

-----------------------------------------------------------------------------
(* Properties *)

\* crawl_all has run its deduplication and ranking steps
Finished == pc \in {"done", "raised"}

KeyOfArticle(a) == title_key_of(a.title)

TitlesOf(articles) == [ i \in DOMAIN articles |-> articles[i].title ]

\* The positions of the articles that are the first of their key
FirstOfKey(articles) ==
    { i \in DOMAIN articles :
          \A j \in 1 .. (i - 1) : KeyOfArticle(articles[j]) # KeyOfArticle(articles[i]) }

\* The k-th smallest member of a set of numbers
KthOf(S, k) == CHOOSE i \in S : Cardinality({ j \in S : j < i }) = k - 1

\* kept is the articles at the positions of S, in their order
KeepsExactly(kept, articles, S) ==
    /\ Len(kept) = Cardinality(S)
    /\ \A k \in DOMAIN kept : kept[k] = articles[KthOf(S, k)]

\* C1: the output of deduplication holds no two articles of the same title key,
\* deduplicating it again changes nothing, and deduplicating the input
\* followed by itself gives as many articles as deduplicating the input
C1_DedupIdempotent ==
    Finished =>
        /\ \A i, j \in DOMAIN unique_articles :
               i # j => KeyOfArticle(unique_articles[i]) # KeyOfArticle(unique_articles[j])
        /\ Deduplicate(unique_articles) = unique_articles
        /\ Len(Deduplicate(all_articles \o all_articles)) = Len(unique_articles)

C1_Witness ==
    /\ Finished
    /\ Len(all_articles) = 3
    /\ Len(unique_articles) = 2
    /\ KeyOfArticle(all_articles[1]) = KeyOfArticle(all_articles[3])

\* The input of deduplication is an article titled X followed by one titled Y
InputIsXThenY == Finished /\ TitlesOf(all_articles) = << TitleX, TitleY >>

\* C2 as claimed: of X followed by Y, deduplication returns X alone
C2_YDroppedAsDuplicate ==
    InputIsXThenY => unique_articles = << all_articles[1] >>

\* C2 amended: of X followed by Y, deduplication returns both, X first: the
\* keys differ in the fifth word of Y; an article after X is dropped when its
\* title has the key of X, as "GPT-5: launch  details TODAY!" has
C2_YKeptBesideX ==
    /\ InputIsXThenY => unique_articles = all_articles
    /\ (Finished /\ TitlesOf(all_articles) = << TitleX, TitleX2 >>)
           => unique_articles = << all_articles[1] >>

C2_Witness == InputIsXThenY /\ Len(unique_articles) = 2

\* C3: the deduplicated output is the input restricted to the articles that
\* are the earliest of their title key, in the order of the input
C3_FirstSeenWins ==
    Finished => KeepsExactly(unique_articles, all_articles, FirstOfKey(all_articles))

C3_Witness ==
    /\ Finished
    /\ Len(unique_articles) = 2
    /\ \E i, j \in DOMAIN all_articles :
           /\ i < j
           /\ KeyOfArticle(all_articles[i]) = KeyOfArticle(all_articles[j])
           /\ all_articles[i] # all_articles[j]
           /\ \E k \in DOMAIN all_articles : i < k /\ k < j

\* The weight of a priority in the ranking
RankWeight(priority) ==
    CASE priority = "high" -> 3
      [] priority = "medium" -> 2
      [] OTHER -> 1

\* The date of an article as the ranking step reads it: the instant of an ISO
\* date; the earliest date for a missing date and for every date
\* datetime.fromisoformat does not parse (the RFC 822 dates of feeds among them)
RankDate(a) ==
    IF a.date.kind \in {"iso_tz", "iso_naive"} THEN a.date.ts ELSE MinTs

InRankOrder(a, b) ==
    \/ RankWeight(a.priority) > RankWeight(b.priority)
    \/ /\ RankWeight(a.priority) = RankWeight(b.priority)
       /\ RankDate(a) >= RankDate(b)

Ranked(articles) ==
    \A i \in 1 .. (Len(articles) - 1) : InRankOrder(articles[i], articles[i + 1])

C5_CrawlAllNeverRaises == pc # "raised"

\* C6: every fetcher is invoked once, in registry order; a crawl() that raises
\* adds nothing to the buffer, and the fetchers after it are still invoked
C6_EveryFetcherInvokedOnce ==
    /\ \A k \in DOMAIN calls : calls[k].crawler = k
    /\ \A k \in DOMAIN calls : calls[k].raised => calls[k].after = calls[k].before
    /\ pc = "loop" => Len(calls) = idx - 1
    /\ Finished => Len(calls) = Len(crawlers)

C6_Witness ==
    /\ Finished
    /\ Len(crawlers) = 2
    /\ calls[1].raised
    /\ ~calls[2].raised
    /\ calls[2].after > calls[2].before

\* C7 as claimed: in the scenario crawl_all does not raise and returns the
\* five articles of the first fetcher, less the duplicates among them, ranked
C7_ScenarioReturnsTheFive ==
    Finished =>
        /\ pc = "done"
        /\ Len(all_articles) = 5
        /\ Ranked(sorted_articles)
        /\ Len(sorted_articles) = Cardinality(FirstOfKey(all_articles))
        /\ \A i \in FirstOfKey(all_articles) :
               \E k \in DOMAIN sorted_articles : sorted_articles[k] = all_articles[i]

\* The dates the timeframe check parses
Parseable(date_str) == date_str.kind \in {"rfc", "iso_tz", "iso_naive"}

\* C8 as claimed, for the articles of the feed fetchers: each one with a
\* parseable date is dated within days_back days of the run
C8_WindowFollowsDaysBack ==
    pc = "done" =>
        \A i \in DOMAIN sorted_articles :
            (sorted_articles[i].source = RssOpenAI.name /\ Parseable(sorted_articles[i].date))
                => sorted_articles[i].date.ts >= started - days_back * DAY

\* is_within_timeframe was called on its own with these arguments
Probed == probe_args # << >> /\ probe_result # << >>

\* C9: for a parseable date the check answers true exactly when the date is
\* no earlier than now - days_back days: true at the cutoff, false one second
\* before it
C9_InclusiveLowerEdge ==
    (Probed /\ Parseable(probe_args[1].date)) =>
        LET a == probe_args[1]
            cutoff == a.now - a.days * DAY
        IN  /\ ~probe_result[1].raised
            /\ probe_result[1].value <=> (a.date.ts >= cutoff)
            /\ a.date.ts = cutoff => probe_result[1].value
            /\ a.date.ts = cutoff - SECOND => ~probe_result[1].value

C9_Witness ==
    /\ Probed
    /\ Parseable(probe_args[1].date)
    /\ probe_args[1].days = 2
    /\ probe_args[1].date.ts = probe_args[1].now - 2 * DAY
    /\ probe_result[1].value

\* C10: for the empty date string and for a date string that does not parse
\* the check answers true and does not raise
C10_FailsOpen ==
    (Probed /\ ~Parseable(probe_args[1].date)) =>
        /\ ~probe_result[1].raised
        /\ probe_result[1].value

C10_Witness ==
    /\ Probed
    /\ probe_args[1].date = GarbageDate
    /\ probe_result[1].value

\* The network calls of request number no, in the order they were issued
CallsOf(no) == SelectSeq(network, LAMBDA c : c.request = no)

\* The requests make_request served, by number
MadeRequests ==
    { no \in 1 .. request_no :
          \E k \in DOMAIN network :
              network[k].request = no /\ crawlers[network[k].instance].kind \in MakeRequestKinds }

Failing(answer) == answer.kind = "timeout" \/ answer.status >= 400

\* A transient transport error: no answer in time, or a 5xx status
Transient(answer) == answer.kind = "timeout" \/ answer.status >= 500

\* C12: a request is tried at most 3 times, the tries numbered from 1; every
\* try but the last failed, so a try that succeeds is the last; the wait
\* between a failed try and the next lies between nothing and the backoff
\* value; a request gives up before its third try only when max_time has run
\* out; and make_request raises exactly when the last try failed
C12_AtMostThreeAttempts ==
    \A no \in MadeRequests :
        LET cs == CallsOf(no)
            n == Len(cs)
        IN  /\ n >= 1 /\ n <= 3
            /\ \A k \in 1 .. n : cs[k].try = k
            /\ \A k \in 1 .. (n - 1) :
                   /\ Failing(cs[k].answer)
                   /\ cs[k + 1].began >= cs[k].at + Duration(cs[k].answer)
                   /\ cs[k + 1].began <= cs[k].at + Duration(cs[k].answer) + Expo(k)
            /\ (Failing(cs[n].answer) /\ n < 3) => cs[n].began - cs[1].began >= max_time
            /\ no = request_no => (probe_result[1].raised <=> Failing(cs[n].answer))

C12_Witness ==
    /\ request_no \in MadeRequests
    /\ Len(CallsOf(request_no)) = 3
    /\ \A k \in 1 .. 3 : Transient(CallsOf(request_no)[k].answer)
    /\ CallsOf(request_no)[2].began > CallsOf(request_no)[1].at + 1
    /\ probe_result[1].raised

\* C14 as claimed: a try answered with a 4xx status is the last try of its
\* request
C14_ClientErrorNotRetried ==
    \A k \in DOMAIN network :
        (network[k].answer.kind = "response" /\ network[k].answer.status \in 400 .. 499)
            => ~\E j \in DOMAIN network :
                    network[j].request = network[k].request /\ network[j].try > network[k].try

\* The position in the history of the call instance network[k].instance
\* issued before call k, 0 when call k is its first
PreviousCall(k) ==
    LET S == { j \in 1 .. (k - 1) : network[j].instance = network[k].instance }
    IN  IF S = {} THEN 0 ELSE CHOOSE j \in S : \A m \in S : m <= j

\* C15: a call and the call the same instance issued before it are at least
\* the instance's throttle_delay apart; before a call the instance sleeps for
\* what is left of the delay since its own previous call, and not at all when
\* none is left or the call is its first, whatever other instances did; and
\* the last_request_time of an instance is the time of its own latest call
C15_ThrottlePerInstance ==
    /\ \A k \in DOMAIN network :
           LET c == network[k]
               delay == crawlers[c.instance].throttle_delay
               j == PreviousCall(k)
           IN  IF j = 0 THEN c.at = c.began
               ELSE /\ c.at - network[j].at >= delay
                    /\ c.at - c.began =
                           (IF c.began - network[j].at < delay
                            THEN delay - (c.began - network[j].at) ELSE 0)
    /\ \A i \in DOMAIN last_request_time :
           LET S == { k \in DOMAIN network : network[k].instance = i }
           IN  IF S = {} THEN last_request_time[i] = 0
               ELSE last_request_time[i] = network[CHOOSE k \in S : \A m \in S : m <= k].at

C15_Witness ==
    /\ Len(network) >= 3
    /\ network[1].instance # network[2].instance
    /\ network[2].began - network[1].at < crawlers[network[2].instance].throttle_delay
    /\ network[2].at = network[2].began
    /\ network[3].instance = network[2].instance
    /\ network[3].at > network[3].began

\* The summary of an article as text, empty when the article has none
SummaryText(a) == IF a.summary = None THEN << >> ELSE a.summary[1]

\* C11 as claimed: every article a fetcher returned has an AI-indicator tag or
\* an AI keyword in its title or summary
C11_OnlyRelevantArticles ==
    \A i \in DOMAIN all_articles :
        is_ai_relevant(all_articles[i].title, SummaryText(all_articles[i]),
                       all_articles[i].tags)

\* Every network call of crawl number k failed with a transient error
Exhausted(k) ==
    /\ k \in DOMAIN calls
    /\ CallsOf(k) # << >>
    /\ \A j \in DOMAIN CallsOf(k) : Transient(CallsOf(k)[j].answer)

\* C13 as claimed: a crawl() whose every request failed with a transient error
\* made at most 3 tries, did not raise and returned no article, and a
\* crawl_all with such a crawl completes
C13_ExhaustedFetcherRunCompletes ==
    \A k \in DOMAIN calls :
        Exhausted(k) =>
            /\ Len(CallsOf(k)) <= 3
            /\ ~calls[k].raised
            /\ calls[k].after = calls[k].before
            /\ Finished => pc = "done"

\* C17 as claimed: the summary of every article a fetcher returned is absent
\* or at most 500 characters long
C17_SummaryAtMost500 ==
    \A i \in DOMAIN all_articles :
        all_articles[i].summary = None \/ Len(all_articles[i].summary[1]) <= 500

\* The date string carries an instant of the UTC calendar day before the day
\* of now
DatedYesterday(date_str, now) ==
    Parseable(date_str) /\ DayStart(date_str.ts) = DayStart(now) - DAY

\* C16: get_priority gives high for a date within yesterday; otherwise high
\* when title and summary hold a high-value keyword; otherwise medium.  An
\* article dated today or two days ago without such a keyword gets medium
C16_PriorityHeuristic ==
    Probed =>
        LET a == probe_args[1]
            keyword == AnyKeyword(priority_keywords, TextOf(a.title, a.summary))
        IN  /\ probe_result[1] =
                   (IF DatedYesterday(a.date, a.now) THEN "high"
                    ELSE IF keyword THEN "high" ELSE "medium")
            /\ (/\ a.title \in {TitlePasta, TitleX}
                /\ a.summary = << >>
                /\ Parseable(a.date)
                /\ DayStart(a.date.ts) \in {DayStart(a.now), DayStart(a.now) - 2 * DAY})
                   => probe_result[1] = "medium"
            /\ (a.title = TitleNine \/ a.summary = SummaryFunding)
                   => probe_result[1] = "high"

C16_Witness ==
    /\ Probed
    /\ probe_args[1].title = TitlePasta
    /\ probe_args[1].summary = << >>
    /\ probe_args[1].date.kind = "iso_naive"
    /\ probe_args[1].date.ts = DayStart(probe_args[1].now) - 1
    /\ probe_args[1].now > DayStart(probe_args[1].now)
    /\ probe_result[1] = "high"

\* The descriptors of a registry, category after category
AllDescriptors(reg) ==
    reg.corporate \o reg.startups \o reg.academic \o reg.implementation
        \o reg.institutes

\* The kind of fetcher a descriptor type stands for
KindOfType(type) ==
    CASE type = "rss" -> "rss"
      [] type = "arxiv" -> "arxiv"
      [] type = "github_trending" -> "github"
      [] type = "huggingface_api" -> "huggingface"
      [] type = "papers_with_code" -> "papers"

\* fetchers holds one fetcher for every descriptor of the registry, in order
OneFetcherPerDescriptor(fetchers, reg) ==
    /\ Len(fetchers) = Len(AllDescriptors(reg))
    /\ \A i \in DOMAIN fetchers :
           /\ fetchers[i].kind = KindOfType(AllDescriptors(reg)[i].type)
           /\ fetchers[i].throttle_delay = AllDescriptors(reg)[i].throttle_delay
           /\ fetchers[i].kind = "rss" =>
                  /\ fetchers[i].name = AllDescriptors(reg)[i].name
                  /\ fetchers[i].tags = AllDescriptors(reg)[i].tags

\* The constructor has returned or raised
ConstructionOver == registry # << >> /\ pc \in {"idle", "init_raised"}

\* C18 as claimed: the constructor does not raise, and it leaves the
\* orchestrator with one fetcher for every descriptor, in registry order
C18_ConstructionCompletes ==
    ConstructionOver =>
        /\ pc = "idle"
        /\ OneFetcherPerDescriptor(crawlers, registry)

\* The article was written to a line and an Article rebuilt from the line
RoundTripped ==
    /\ probe_args # << >>
    /\ probe_result # << >>
    /\ "article" \in DOMAIN probe_result[1]

\* C19: the Article rebuilt from the line of an Article has the same title,
\* authors, date, url, tags, source, summary, priority and crawled_at; empty
\* authors come back empty and an absent summary comes back absent
C19_RoundTrip ==
    RoundTripped =>
        LET a == probe_args[1]
            b == probe_result[1].article
        IN  /\ b.title = a.title
            /\ b.authors = a.authors
            /\ b.date = a.date
            /\ b.url = a.url
            /\ b.tags = a.tags
            /\ b.source = a.source
            /\ b.summary = a.summary
            /\ b.priority = a.priority
            /\ b.crawled_at = a.crawled_at
            /\ a.authors = << >> => b.authors = << >>
            /\ a.summary = None => b.summary = None

C19_Witness ==
    /\ RoundTripped
    /\ probe_args[1].title = TitleQuoted
    /\ probe_args[1].authors = << >>
    /\ probe_args[1].summary = None
    /\ probe_result[1].article = probe_args[1]
    /\ clock > probe_args[1].crawled_at

\* The articles crawl() invocation k added to all_articles
BlockOf(k) == SubSeq(all_articles, calls[k].before + 1, calls[k].after)

RECURSIVE BlocksInOrder(_, _)
BlocksInOrder(order, i) ==
    IF i > Len(order) THEN << >>
    ELSE BlockOf(order[i]) \o BlocksInOrder(order, i + 1)

\* The orders in which the fetchers of the run can be invoked
FetchOrders ==
    { order \in [DOMAIN calls -> DOMAIN calls] :
          \A i, j \in DOMAIN calls : order[i] = order[j] => i = j }

\* No two collected articles share a dedup key
DistinctDedupKeys ==
    \A i, j \in DOMAIN all_articles :
        title_key_of(all_articles[i].title) = title_key_of(all_articles[j].title)
            => i = j

\* C20: when no two collected articles share a dedup key and crawl_all
\* returned, a run in which the fetchers return the same articles but are
\* invoked in another order returns the same sequence
C20_FetchOrderIndependent ==
    (pc = "done" /\ DistinctDedupKeys) =>
        \A order \in FetchOrders :
            LET ranked == SortByPriority(Deduplicate(BlocksInOrder(order, 1)))
            IN  ~ranked.raised => ranked.value = sorted_articles

\* load_llm_client was called and ended
Loaded == probe_args # << >> /\ probe_result # << >>

\* The provider can be constructed: package installed, key set and not
\* empty, client constructor does not raise
Constructible(setup) ==
    /\ setup.installed
    /\ setup.api_key # None
    /\ setup.api_key # Some(<< >>)
    /\ ~setup.sdk_raises

\* The order of the candidates for a hint, spelled out
CandidateOrder(hint) ==
    LET named == IF hint = None THEN << >> ELSE Lower(hint[1])
    IN  CASE named = KeyOpenAI -> << KeyOpenAI, KeyGroq, KeyAnthropic >>
          [] named = KeyAnthropic -> << KeyAnthropic, KeyGroq, KeyOpenAI >>
          [] OTHER -> << KeyGroq, KeyOpenAI, KeyAnthropic >>

\* C21: load_llm_client tries the candidates in order, the preferred provider
\* first when the hint names a known one and the default order groq, openai,
\* anthropic otherwise; it returns the client of the first provider that can
\* be constructed and tries no later one; it raises one EnvironmentError
\* exactly when no provider can be constructed
C21_FirstAvailableProvider ==
    Loaded =>
        LET hint == probe_args[1].preferred_provider
            environ == probe_args[1].environ
            r == probe_result[1]
            order == CandidateOrder(hint)
            n == Len(r.tried)
        IN  /\ n \in 1 .. 3
            /\ r.tried = SubSeq(order, 1, n)
            /\ \A i \in 1 .. n - 1 : ~Constructible(environ[order[i]])
            /\ ~r.raised =>
                   /\ r.client.provider = order[n]
                   /\ Constructible(environ[order[n]])
            /\ r.raised =>
                   /\ r.exc = "EnvironmentError"
                   /\ n = 3
            /\ r.raised <=> \A key \in ProviderKeys : ~Constructible(environ[key])

C21_Witness ==
    /\ Loaded
    /\ probe_args[1].preferred_provider = Some(<< "O", "p", "e", "n", "A", "I" >>)
    /\ ~probe_result[1].raised
    /\ probe_result[1].tried = << KeyOpenAI, KeyGroq >>
    /\ probe_result[1].client.provider = KeyGroq
    /\ Constructible(probe_args[1].environ[KeyAnthropic])

\* generate_summary was called and ended
Summarized ==
    /\ probe_args # << >>
    /\ probe_result # << >>
    /\ "news_data" \in DOMAIN probe_args[1]

\* The text-generation call raised or gave no text
GenerationFailed(answer) ==
    \/ answer.raised
    \/ answer.choices = << >>
    \/ ~answer.choices[1].message.has_content
    \/ answer.choices[1].message.content \in {None, Some(<< >>)}

\* The nine pieces of the fallback brief for record k start after the three
\* pieces of its heading
ItemAt(brief, k) == SubSeq(brief, 3 + 9 * (k - 1) + 1, 3 + 9 * k)

\* C22: when the text-generation call raises or gives no text,
\* generate_summary does not raise; it returns the fallback brief, which lists
\* the first 10 records with title, source, summary and link, and it made the
\* one text-generation call only
C22_FallbackOnGenerationFailure ==
    (Summarized /\ GenerationFailed(probe_args[1].answer)) =>
        LET records == probe_args[1].news_data.articles
            r == probe_result[1]
            n == IF Len(records) < 10 THEN Len(records) ELSE 10
        IN  /\ ~r.raised
            /\ Len(r.completions) = 1
            /\ Len(r.value) = 3 + 9 * n + 4
            /\ \A k \in 1 .. n :
                   LET item == ItemAt(r.value, k)
                   IN  /\ item[2] = Txt(records[k].title)
                       /\ item[4] = Lit(records[k].source)
                       /\ item[6] = Txt(SubSeq(records[k].summary, 1,
                                        IF Len(records[k].summary) < 100
                                        THEN Len(records[k].summary) ELSE 100))
                       /\ item[8] = Lit(records[k].link)

C22_Witness ==
    /\ Summarized
    /\ probe_args[1].answer = CompletionReturns(<< Message(TRUE, Some(<< >>)) >>)
    /\ Len(probe_args[1].news_data.articles) = 12
    /\ Len(probe_result[1].value) = 3 + 9 * 10 + 4
    /\ Len(probe_args[1].news_data.articles[2].summary) > 100
    /\ Len(ItemAt(probe_result[1].value, 2)[6].text) = 100

\* Network call k went through the request layer: the session's client
\* identifier and the 30-second timeout
ThroughRequestLayer(k) ==
    /\ network[k].client = "session"
    /\ network[k].timeout = Some(30 * SECOND)
    /\ network[k].user_agent = UserAgent

\* Network call k, when it failed with a transient error on a try before the
\* third and within the 30 seconds of the policy, is followed by the next try
RetriedUnderPolicy(k) ==
    LET c == network[k]
    IN  (/\ Transient(c.answer)
         /\ c.try < 3
         /\ k - (c.try - 1) \in DOMAIN network
         /\ c.began - network[k - (c.try - 1)].began < 30 * SECOND)
        => /\ k + 1 \in DOMAIN network
           /\ network[k + 1].instance = c.instance
           /\ network[k + 1].try = c.try + 1

\* C23 as claimed: every network call of every fetcher carries the 30-second
\* timeout and the crawler's client identifier, and a transient failure of it
\* is retried under the 3-attempt policy
C23_EveryCallThroughRequestLayer ==
    \A k \in DOMAIN network : ThroughRequestLayer(k) /\ RetriedUnderPolicy(k)

\* crawl() of the one fetcher ran over the payload
CrawledPayload ==
    /\ Len(crawlers) = 1
    /\ probe_args # << >>
    /\ probe_result # << >>
    /\ "articles" \in DOMAIN probe_result[1]

\* An entry without its title or its link
Malformed(kind, entry) ==
    CASE kind \in {"rss", "web"} -> entry.title = None \/ entry.link = None
      [] kind = "github" -> entry.name = None
      [] kind = "papers" -> entry.title = None
      [] OTHER -> FALSE

\* What the loop body of the fetcher makes of an entry taken on its own
BodyOf(self, entry, period, now) ==
    CASE self.kind = "rss" -> RssEntry(self, entry, now)
      [] self.kind = "web" -> WebElement(self, entry, now)
      [] self.kind = "github" -> GitHubRepo(self, entry, period, now)
      [] self.kind = "papers" -> PapersCard(self, entry, now)
      [] self.kind = "arxiv" -> ArxivPaper(self, entry, self.categories[1], now)
      [] self.kind = "huggingface" -> HuggingFaceModel(self, entry, now)

\* The source delivered the payload: the first request of the crawl was
\* answered, at the first try or after retries
Delivered ==
    \E k \in DOMAIN network :
        /\ network[k].answer = Response(200)
        /\ \A j \in 1 .. k - 1 : network[j].try < network[k].try

\* The instant at which the entries of the payload were read: when the
\* request that fetched them ended
ReadAt ==
    LET k == CHOOSE k \in DOMAIN network :
                 /\ network[k].answer = Response(200)
                 /\ \A j \in 1 .. k - 1 : network[j].try < network[k].try
    IN  network[k].at + Duration(network[k].answer)

\* C24 as claimed: a well-formed, recent, relevant entry (one that yields an
\* article when taken on its own) that follows an entry without title or link
\* in the same payload is in the output of crawl()
C24_MalformedEntrySkippedAlone ==
    (CrawledPayload /\ Delivered) =>
        LET self == crawlers[1]
            payload == probe_args[1]
        IN  \A i, j \in DOMAIN payload :
                (/\ i < j
                 /\ Malformed(self.kind, payload[i])
                 /\ BodyOf(self, payload[j], "daily", ReadAt).kind = "article")
                => \E k \in DOMAIN probe_result[1].articles :
                       probe_result[1].articles[k]
                           = BodyOf(self, payload[j], "daily", ReadAt).article

\* The nine fields of an Article
IsArticle(a) ==
    DOMAIN a = {"title", "authors", "date", "url", "tags", "source", "summary",
                "priority", "crawled_at"}

\* A request of the crawl failed at every try it was given
TransportFailed ==
    \E k \in DOMAIN network :
        /\ Failing(network[k].answer)
        /\ (k = Len(network) \/ network[k + 1].try = 1)

\* C25: crawl() of a fetcher of any kind does not raise, whatever failed
\* during the crawl: it returns a sequence of Articles
C25_CrawlNeverRaises ==
    CrawledPayload =>
        /\ ~probe_result[1].raised
        /\ \A k \in DOMAIN probe_result[1].articles :
               IsArticle(probe_result[1].articles[k])

\* The trending-list fetcher whose daily request succeeded and whose weekly
\* request failed at all three tries returns the articles of the daily page
C25_Witness ==
    /\ CrawledPayload
    /\ crawlers[1].kind = "github"
    /\ TransportFailed
    /\ Len(network) = 4
    /\ network[1].answer = Response(200)
    /\ ~probe_result[1].raised
    /\ Len(probe_result[1].articles) = 1

\* run_daily_update returned after a collection that gave no article
ReturnedAfterEmptyCollection ==
    /\ pc = "returned"
    /\ probe_args # << >>
    /\ "collected" \in DOMAIN probe_args[1]
    /\ probe_args[1].healthy
    /\ ~probe_args[1].collected.raised
    /\ probe_args[1].collected.value = << >>

\* The steps of the run so far
StepsTaken == { probe_result[1].steps[i] : i \in DOMAIN probe_result[1].steps }

\* C26 as claimed: when collection gives no article, the run replaces the news
\* data with one placeholder article of priority low and goes on to the
\* summarization and publishing steps
C26_EmptyCollectionGetsPlaceholder ==
    ReturnedAfterEmptyCollection =>
        /\ probe_result[1].news_data # None
        /\ Len(probe_result[1].news_data[1].articles) = 1
        /\ probe_result[1].news_data[1].articles[1].priority = "low"
        /\ "summarize" \in StepsTaken
        /\ "publish" \in StepsTaken

\* The priorities of the articles the crawl returned
AssignedPriorities ==
    { probe_result[1].articles[k].priority : k \in DOMAIN probe_result[1].articles }

\* C27: no fetcher of any kind gives an article the priority low; every
\* article a crawl returns has the priority high or medium
C27_NoFetcherAssignsLow ==
    CrawledPayload => AssignedPriorities \subseteq {"high", "medium"}

\* A fetcher that ranks by get_priority returned an article that is neither of
\* yesterday nor about a priority keyword: it got the default priority
C27_Witness ==
    /\ CrawledPayload
    /\ crawlers[1].kind \in {"rss", "web", "arxiv", "papers"}
    /\ \E k \in DOMAIN probe_result[1].articles :
           LET a == probe_result[1].articles[k]
           IN  /\ a.priority = "medium"
               /\ ~is_yesterday_priority(a.date, probe_result[1].now).value
               /\ ~AnyKeyword(priority_keywords, TextOf(a.title, a.summary))

\* Two articles the ranking step does not tell apart: equal weight and equal
\* date as the step reads it
RankTie(a, b) ==
    /\ RankWeight(a.priority) = RankWeight(b.priority)
    /\ RankDate(a) = RankDate(b)

\* The place of the article a in the returned ranking
RankOf(a) == CHOOSE k \in DOMAIN sorted_articles : sorted_articles[k] = a

\* C28: articles of equal weight and equal parsed date (both dates missing or
\* unparsable included) leave the ranking step in the order they entered it
C28_RankingIsStable ==
    pc = "done" =>
        \A i, j \in DOMAIN unique_articles :
            (i < j /\ RankTie(unique_articles[i], unique_articles[j]))
                => RankOf(unique_articles[i]) < RankOf(unique_articles[j])

\* The ranking moved an article, and two articles that tie on dates it could
\* not read kept the order they entered in
C28_Witness ==
    /\ pc = "done"
    /\ sorted_articles # unique_articles
    /\ \E i, j \in DOMAIN unique_articles :
           /\ i < j
           /\ RankTie(unique_articles[i], unique_articles[j])
           /\ unique_articles[i].date.kind \notin {"iso_tz", "iso_naive"}
           /\ unique_articles[j].date.kind \notin {"iso_tz", "iso_naive"}
           /\ RankOf(unique_articles[i]) < RankOf(unique_articles[j])
           /\ RankOf(unique_articles[i]) # i

\* The catalog fetcher crawled and the catalog answered
CrawledCatalog ==
    /\ CrawledPayload
    /\ crawlers[1].kind = "huggingface"
    /\ Delivered

\* The entry was created inside the lookback window of the crawl
InWindow(model) ==
    is_within_timeframe(model.createdAt, DefaultDaysBack, ReadAt).value

\* The entries of the catalog the claim says are emitted, in catalog order
PopularInWindow ==
    SelectSeq(probe_args[1],
              LAMBDA model : InWindow(model)
                             /\ (model.downloads >= 100 \/ model.likes >= 10))

\* The article is the one of the catalog entry
ArticleOfModel(a, model) ==
    /\ a.title = NewModelPrefix \o model.modelId
    /\ a.date = model.createdAt
    /\ a.summary = Some(DownloadsPrefix \o FormatInt(model.downloads)
                            \o LikesInfix \o FormatInt(model.likes))

\* C29: the catalog fetcher emits an entry of the window exactly when its
\* downloads are at least 100 or its likes at least 10; the article has the
\* priority high exactly when likes exceed 100 or downloads exceed 10000, and
\* medium otherwise (100 likes with 10000 downloads is medium)
C29_CatalogThresholds ==
    CrawledCatalog =>
        LET articles == probe_result[1].articles
        IN  /\ Len(articles) = Len(PopularInWindow)
            /\ \A k \in DOMAIN articles :
                   LET model == PopularInWindow[k]
                   IN  /\ ArticleOfModel(articles[k], model)
                       /\ articles[k].priority = "high"
                              <=> (model.likes > 100 \/ model.downloads > 10000)
                       /\ articles[k].priority \in {"high", "medium"}

\* An entry of the window with exactly 100 likes and 10000 downloads was
\* emitted with the priority medium
C29_Witness ==
    /\ CrawledCatalog
    /\ InWindow(probe_args[1][1])
    /\ probe_args[1][1].likes = 100
    /\ probe_args[1][1].downloads = 10000
    /\ Len(probe_result[1].articles) >= 1
    /\ ArticleOfModel(probe_result[1].articles[1], probe_args[1][1])
    /\ probe_result[1].articles[1].priority = "medium"

\* save_to_json wrote the aggregate document
SavedDocument ==
    /\ probe_args # << >>
    /\ probe_result # << >>
    /\ "document" \in DOMAIN probe_result[1]

\* Every article that was saved has one of the three priorities
AllPrioritiesKnown ==
    \A i \in DOMAIN probe_args[1] : probe_args[1][i].priority \in {"high", "medium", "low"}

\* C30: in the aggregate document total_count is the number of records,
\* sources is the set of the distinct source names, and the three counts of
\* priority_breakdown add up to total_count when every priority is high,
\* medium or low
C30_AggregateDocument ==
    SavedDocument =>
        LET document == probe_result[1].document
            articles == probe_args[1]
        IN  /\ Len(document.articles) = Len(articles)
            /\ document.total_count = Len(articles)
            /\ document.sources = { articles[i].source : i \in DOMAIN articles }
            /\ AllPrioritiesKnown =>
                   document.priority_breakdown.high + document.priority_breakdown.medium
                       + document.priority_breakdown.low = document.total_count

\* Three records were saved, two of them the same record, of two sources
C30_Witness ==
    /\ SavedDocument
    /\ AllPrioritiesKnown
    /\ Len(probe_args[1]) = 3
    /\ probe_args[1][1] = probe_args[1][3]
    /\ probe_result[1].document.total_count = 3
    /\ Cardinality(probe_result[1].document.sources) = 2
    /\ probe_result[1].document.priority_breakdown.low = 1

====
